---- MODULE Spec2Model ----
(***************************************************************************)
(* ciftify_recon_all: the multi-resolution surface mesh build pipeline.    *)
(*                                                                         *)
(* The model follows src/ciftify/bin/ciftify_recon_all.py.  One invocation *)
(* of the script is a process that                                         *)
(*   1. constructs Settings (registration mode, subject, registration      *)
(*      settings, resume decision),                                        *)
(*   2. interprets, one statement at a time, the sequence of statements    *)
(*      that run_ciftify_recon_all executes for those settings.            *)
(* The file system (disk), the manifests (spec files) and the template     *)
(* cache persist between invocations; everything else is per invocation.   *)
(*                                                                         *)
(* A statement is a record: an external call through run(), a directory    *)
(* creation, a symlink, a conditional (os.path.exists tests), a fatal      *)
(* existence check, or a query through get_stdout.                         *)
(***************************************************************************)
EXTENDS Integers, Sequences, FiniteSets, TLC

VARIABLES
    args,       \* the command line and environment of the current invocation
    settings,   \* the Settings object built by Settings.__init__
    pc,         \* where the current invocation is
    ip,         \* index of the next statement of the workflow
    status,     \* how the current invocation ended (code -1: still running)
    previous,   \* status of the previous invocation (code -1: there is none)
    disk,       \* files and directories that exist under the work directory
    manifest,   \* per mesh space: the entries of its spec file, in order
    tmp,        \* files of the invocation's temporary directories
    calls,      \* commands handed to run(), get_stdout and Popen, in order:
                \* <<through, tool, dryrun, return code>>
    disk0,      \* disk when the current invocation started
    manifest0,  \* manifest when the current invocation started
    written,    \* files written by the workflow statements of this invocation
    removed,    \* files a user removed between the invocations
    conf,       \* the text of the msm configuration file
    printed,    \* the option names msm --printoptions prints
    verdict,    \* result of check_msm_config ("none" before it has run)
    roi,        \* medial wall masks of one hemisphere, per vertex
    dsc,        \* the 'dscalars' configuration entry and what Settings keeps
    va,         \* vertex areas of two spheres and the areal distortion map
    cache,      \* the template cache zz_templates: its folder and one file
    subjects,   \* subject processes linking to that file of the cache
    race        \* invocations for one subject that start at the same time

vars == <<args, settings, pc, ip, status, previous, disk, manifest, tmp, calls,
          disk0, manifest0, written, removed, conf, printed, verdict,
          roi, dsc, va, cache, subjects, race>>

pipeVars == <<args, settings, pc, ip, status, previous, disk, manifest, tmp,
              calls, disk0, manifest0, written, removed>>

msmVars == <<conf, printed, verdict>>

\* state of the functions that are examined on their own
unitVars == <<roi, dsc, va, cache, subjects, race>>

(***************************************************************************)
(* Mesh spaces (define_meshes) and file names (ciftify.filenames).         *)
(***************************************************************************)

\* settings.high_res: the high resolution mesh, '164k_fs_LR'
high_res == 164

\* settings.low_res: the requested low resolution meshes
low_res == <<32>>

T1wNative == <<"T1wNative", 0>>

AtlasSpaceNative == <<"AtlasSpaceNative", 0>>

HighResMesh == <<"HighResMesh", high_res>>

\* meshes['{}k_fs_LR'.format(res)]
LowResMesh(res) == <<"k_fs_LR", res>>

\* meshes['Native{}k_fs_LR'.format(res)]
NativeLowResMesh(res) == <<"Nativek_fs_LR", res>>

SeqRange(s) == {s[i] : i \in 1..Len(s)}

RECURSIVE MapSeq(_, _)
MapSeq(Op(_), s) ==
    IF s = <<>> THEN <<>> ELSE <<Op(Head(s))>> \o MapSeq(Op, Tail(s))

RECURSIVE Flatten(_)
Flatten(ss) == IF ss = <<>> THEN <<>> ELSE Head(ss) \o Flatten(Tail(ss))

\* the mesh dictionary, in insertion order; the Native{res}k meshes are
\* defined only when make_low_res (settings.resample) is set
define_meshes(make_low_res) ==
    <<T1wNative, AtlasSpaceNative, HighResMesh>>
        \o MapSeq(LowResMesh, low_res)
        \o (IF make_low_res THEN MapSeq(NativeLowResMesh, low_res) ELSE <<>>)

AllMeshes == SeqRange(define_meshes(TRUE))

NativeLowResMeshes == {NativeLowResMesh(low_res[i]) : i \in 1..Len(low_res)}

\* directories that are not mesh folders
RootDir == <<"root", 0>>
T1wDir == <<"T1w", 0>>
AtlasDir == <<"MNINonLinear", 0>>
XfmsDir == <<"xfms", 0>>
RoisDir == <<"ROIs", 0>>
ResultsDir == <<"Results", 0>>
TemplatesDir == <<"zz_templates", 0>>
MSMSulcDir == <<"MSMSulc", 0>>
TempDir == <<"tempdir", 0>>
FsDir == <<"freesurfer", 0>>
DataDir == <<"ciftify_data", 0>>

\* a file: <<folder, kind, hemisphere, name>>
File(folder, kind, hemi, name) == <<folder, kind, hemi, name>>

Folder(dir) == File(dir, "dir", "-", "-")

\* mesh['tmpdir']
MeshTmpDir(mesh) == File(mesh, "tmpdir", "-", "-")

\* the folder in which a mesh keeps its dense maps: mesh['DenseMapsFolder']
\* when the mesh has one, mesh['Folder'] otherwise
DenseMapsFolder(mesh) ==
    IF mesh = T1wNative THEN AtlasSpaceNative
    ELSE IF mesh[1] = "Nativek_fs_LR" THEN LowResMesh(mesh[2])
    ELSE mesh

\* mesh['T1wImage']
MeshT1wImage(mesh) ==
    IF mesh = T1wNative \/ mesh[1] = "Nativek_fs_LR"
    THEN File(T1wDir, "vol", "-", "T1w")
    ELSE File(AtlasDir, "vol", "-", "T1w")

surf_file(surface, hemi, mesh) == File(mesh, "surf", hemi, surface)

metric_file(map, hemi, mesh) == File(mesh, "shape", hemi, map)

medial_wall_roi_file(hemi, mesh) == metric_file("roi", hemi, mesh)

label_file(label, hemi, mesh) == File(mesh, "label", hemi, label)

dscalar_file(map, mesh) == File(mesh, "dscalar", "LR", map)

dlabel_file(label, mesh) == File(mesh, "dlabel", "LR", label)

Hemispheres == <<"L", "R">>

\* the subject tree: everything under subject.path
InSubjectTree(f) ==
    f[1] \in AllMeshes \cup {RootDir, T1wDir, AtlasDir, XfmsDir, RoisDir,
                             ResultsDir, MSMSulcDir}

(***************************************************************************)
(* Statements.                                                             *)
(***************************************************************************)

Stmt(kind, fn, tool, reads, writes, spec, dry, pos, neg, notdry, skip) ==
    [kind |-> kind, fn |-> fn, tool |-> tool, reads |-> reads,
     writes |-> writes, spec |-> spec, dry |-> dry, pos |-> pos, neg |-> neg,
     notdry |-> notdry, skip |-> skip, wf |-> "", stage |-> ""]

\* run(cmd, dryrun=dry): an external command issued through run(); dry says
\* whether the caller passes dryrun=DRYRUN (FALSE: the default, dryrun=False)
Run(fn, tool, reads, writes, dry) ==
    <<Stmt("run", fn, tool, reads, writes, <<>>, dry, {}, {}, FALSE, 0)>>

\* run(['wb_command', '-add-to-spec-file', spec_file(mesh), structure, file])
AddToSpec(fn, mesh, file, dry) ==
    <<Stmt("run", fn, "wb_command -add-to-spec-file", {}, {},
           <<<<mesh, file>>>>, dry, {}, {}, FALSE, 0)>>

\* ciftify.utils.make_dir(dir, DRYRUN)
MakeDir(fn, dir) ==
    <<Stmt("mkdir", fn, "make_dir", {}, {dir}, <<>>, TRUE, {}, {}, FALSE, 0)>>

\* os.symlink(target, link)
Symlink(fn, target, link) ==
    <<Stmt("symlink", fn, "os.symlink", {target}, {link}, <<>>, FALSE,
           {}, {}, FALSE, 0)>>

\* if every file of pos exists and no file of neg exists: body
If(fn, pos, neg, body) ==
    <<Stmt("if", fn, "os.path.exists", pos \cup neg, {}, <<>>, FALSE,
           pos, neg, FALSE, Len(body))>> \o body

\* if not DRYRUN: body
IfNotDry(fn, body) ==
    <<Stmt("if", fn, "DRYRUN", {}, {}, <<>>, FALSE, {}, {}, TRUE,
           Len(body))>> \o body

\* if not os.path.exists(file): sys.exit(1)
Check(fn, file) ==
    <<Stmt("check", fn, "os.path.exists", {file}, {}, <<>>, FALSE,
           {file}, {}, FALSE, 0)>>

\* get_stdout(cmd): a command whose output the script reads; it takes no
\* dryrun argument
Query(fn, tool, reads, writes) ==
    <<Stmt("query", fn, tool, reads, writes, <<>>, FALSE, {}, {}, FALSE, 0)>>

InStage(stage, prog) ==
    [i \in 1..Len(prog) |-> [prog[i] EXCEPT !.stage = stage]]

InWorkflow(wf, prog) ==
    [i \in 1..Len(prog) |-> [prog[i] EXCEPT !.wf = wf]]

\* for x in xs: Body(x)
ForEach(Body(_), xs) == Flatten(MapSeq(Body, xs))

(***************************************************************************)
(* Configuration read by WorkFlowSettings (ciftify_workflow_settings.yaml) *)
(* and the inputs of the run.                                              *)
(***************************************************************************)

\* the 'dscalars' entry: mapname, fsname ("" when the map does not come from
\* freesurfer), mask_medialwall
DscalarsConfig ==
    << [mapname |-> "sulc", fsname |-> "sulc", mask_medialwall |-> FALSE],
       [mapname |-> "thickness", fsname |-> "thickness",
        mask_medialwall |-> TRUE],
       [mapname |-> "ArealDistortion_FS", fsname |-> "",
        mask_medialwall |-> FALSE],
       [mapname |-> "ArealDistortion_MSMSulc", fsname |-> "",
        mask_medialwall |-> FALSE],
       [mapname |-> "EdgeDistortion_MSMSulc", fsname |-> "",
        mask_medialwall |-> FALSE] >>

\* the keys __define_registration_settings requires
RegistrationKeys == {"src_dir", "dest_dir", "xfms_dir"}

\* settings.grayord_res
grayord_res == <<"2">>

\* the freesurfer version parsed by pars_recon_all_logs: <<major, minor, patch>>
fs_version == <<6, 0, 0>>

\* how many of the expected labels the model carries through the workflow
MaxLabels == 1

define_expected_labels(version) ==
    LET all == <<"aparc", "aparc.a2009s", "BA", "aparc.DKTatlas", "BA_exvivo">>
        no_BA(l) == l # "BA"
        v5(l) == l \notin {"aparc.DKTatlas", "BA_exvivo"}
        a == IF version = <<6, 0, 0>> THEN SelectSeq(all, no_BA) ELSE all
    IN  IF version[1] = 5 THEN SelectSeq(a, v5) ELSE a

expected_labels ==
    LET all == define_expected_labels(fs_version)
    IN  SubSeq(all, 1, IF Len(all) < MaxLabels THEN Len(all) ELSE MaxLabels)

\* inputs: the freesurfer subject folder and the ciftify data directory
fs_T1 == File(FsDir, "mri", "-", "T1")

fs_mgz(image) == File(FsDir, "mri", "-", image)

fs_surf(hemi, surface) == File(FsDir, "surf", hemi, surface)

fs_annot(hemi, label) == File(FsDir, "annot", hemi, label)

data_file(kind, hemi, name) == File(DataDir, kind, hemi, name)

SegmentationImages == <<"wmparc", "aparc.a2009s+aseg", "aparc+aseg">>

InputFiles ==
    {fs_T1, fs_mgz("brain.finalsurfs")}
    \cup {fs_mgz(SegmentationImages[i]) : i \in 1..Len(SegmentationImages)}
    \cup {fs_surf(h, s) : h \in {"L", "R"},
            s \in {"white", "pial", "sphere", "sphere.reg", "sulc", "thickness"}}
    \cup {fs_annot(h, expected_labels[i]) :
            h \in {"L", "R"}, i \in 1..Len(expected_labels)}
    \cup {data_file(k, h, ToString(r)) :
            k \in {"sphere", "atlasroi", "colin.flat"}, h \in {"L", "R"},
            r \in {high_res} \cup SeqRange(low_res)}
    \cup {data_file(k, h, ToString(high_res)) :
            k \in {"fsaverage.sphere", "fs-to-fs_LR", "refsulc"},
            h \in {"L", "R"}}
    \cup {data_file("Atlas_ROIs", "-", grayord_res[i]) :
            i \in 1..Len(grayord_res)}
    \cup {data_file("hcp_config", "-", n) :
            n \in {"FreeSurferAllLut", "FreeSurferSubcorticalLabelTableLut",
                   "MSMSulcStrainFinalconf"}}
    \cup {data_file("standard", "-", n) :
            n \in {"T1wBrain", "T1wImage", "BrainMask", "FNIRTConfig"}}
    \cup {File(<<"user", 0>>, "xfm", "-", n) : n \in {"lin", "nonlin"}}
    \cup {File(<<"user", 0>>, "conf", "-", "MSM-config")}

(***************************************************************************)
(* The workflow, function by function.  s is the Settings object.          *)
(***************************************************************************)

T1w_nii == File(T1wDir, "vol", "-", "T1w")

FreeSurferAllLut == data_file("hcp_config", "-", "FreeSurferAllLut")

\* registration settings: file names under src_dir, dest_dir and xfms_dir
T1w_brain_mask == File(T1wDir, "vol", "-", "brainmask_fs")
T1w_brain_nii == File(T1wDir, "vol", "-", "T1w_brain")
AtlasTransform_Linear == File(XfmsDir, "xfm", "-", "T1w2StandardLinear")
AtlasTransform_NonLinear == File(XfmsDir, "xfm", "-", "T1w2Standard_warp")
InverseAtlasTransform_NonLinear == File(XfmsDir, "xfm", "-", "Standard2T1w_warp")
standard(name) == data_file("standard", "-", name)

create_output_directories(meshes) ==
    LET one(mesh) == MakeDir("create_output_directories", Folder(mesh))
                     \o MakeDir("create_output_directories", MeshTmpDir(mesh))
    IN  ForEach(one, meshes)
        \o MakeDir("create_output_directories", Folder(XfmsDir))
        \o MakeDir("create_output_directories", Folder(RoisDir))
        \o MakeDir("create_output_directories", Folder(ResultsDir))

\* the atlas files are copied into zz_templates once and linked from the
\* subject's folder, or copied into the subject's folder (--no-symlinks)
link_to_template_file(s, subject_file, global_file, via_path) ==
    IF s.no_symlinks
    THEN Run("link_to_template_file", "cp", {global_file}, {subject_file}, TRUE)
    ELSE If("link_to_template_file", {}, {via_path},
            If("link_to_template_file", {}, {Folder(TemplatesDir)},
               Run("link_to_template_file", "mkdir -p", {},
                   {Folder(TemplatesDir)}, TRUE))
            \o Run("link_to_template_file", "cp", {global_file}, {via_path},
                   TRUE))
         \o IfNotDry("link_to_template_file",
                     Symlink("link_to_template_file", via_path, subject_file))

convert_freesurfer_T1 ==
    Check("convert_freesurfer_T1", fs_T1)
    \o Run("convert_freesurfer_T1", "mri_convert", {fs_T1}, {T1w_nii}, TRUE)
    \o Run("convert_freesurfer_T1", "fslreorient2std", {T1w_nii}, {T1w_nii},
           TRUE)

resample_freesurfer_mgz(freesurfer_mgz, image_nii) ==
    Run("resample_freesurfer_mgz", "mri_convert", {T1w_nii, freesurfer_mgz},
        {image_nii}, TRUE)

\* os.path.join(freesurfer_folder, 'mri', '{}.mgz'.format(image_name)), as
\* the sequence of its components
freesurfer_mgz_path(image_name) == <<"freesurfer_folder", "mri", image_name>>

\* line 581: freesurfer_mgz == 'wmparc.mgz', the joined path compared with the
\* bare file name
is_wmparc_mgz(path) == path = <<"wmparc">>

\* a missing image ends the run when the test of line 581 holds and is only
\* warned about otherwise
convert_freesurfer_mgz(image_name) ==
    LET freesurfer_mgz == fs_mgz(image_name)
        image_nii == File(T1wDir, "vol", "-", image_name)
    IN  (IF is_wmparc_mgz(freesurfer_mgz_path(image_name))
         THEN Check("convert_freesurfer_mgz", freesurfer_mgz)
         ELSE <<>>)
        \o If("convert_freesurfer_mgz", {freesurfer_mgz}, {},
              resample_freesurfer_mgz(freesurfer_mgz, image_nii)
              \o Run("convert_freesurfer_mgz",
                     "wb_command -volume-label-import",
                     {image_nii, FreeSurferAllLut}, {image_nii}, TRUE))

\* T2_raw is None (Settings.__get_T2)
convert_T1_and_freesurfer_inputs ==
    convert_freesurfer_T1 \o ForEach(convert_freesurfer_mgz, SegmentationImages)

make_brain_mask_from_wmparc(wmparc_nii, brain_mask) ==
    Run("make_brain_mask_from_wmparc", "fslmaths", {wmparc_nii}, {brain_mask},
        TRUE)
    \o Run("make_brain_mask_from_wmparc", "wb_command -volume-fill-holes",
           {brain_mask}, {brain_mask}, FALSE)
    \o Run("make_brain_mask_from_wmparc", "fslmaths", {brain_mask},
           {brain_mask}, FALSE)

mask_T1w_image(T1w_image, brain_mask, T1w_brain) ==
    Run("mask_T1w_image", "fslmaths", {T1w_image, brain_mask}, {T1w_brain},
        FALSE)

prepare_T1_image ==
    make_brain_mask_from_wmparc(File(T1wDir, "vol", "-", "wmparc"),
                                T1w_brain_mask)
    \o mask_T1w_image(T1w_nii, T1w_brain_mask, T1w_brain_nii)

run_T1_FNIRT_registration(s) ==
    LET T1w2_standard_linear == File(TempDir, "vol", "-", "T1w2StandardLinearImage")
        user(n) == File(<<"user", 0>>, "xfm", "-", n)
    IN  (IF s.user_xfm
         THEN Run("run_T1_FNIRT_registration", "cp", {user("lin")},
                  {AtlasTransform_Linear}, FALSE)
              \o Run("run_T1_FNIRT_registration", "cp", {user("nonlin")},
                     {AtlasTransform_NonLinear}, FALSE)
         ELSE Run("run_T1_FNIRT_registration", "flirt",
                  {T1w_brain_nii, standard("T1wBrain")},
                  {AtlasTransform_Linear, T1w2_standard_linear}, TRUE)
              \o Run("run_T1_FNIRT_registration", "fnirt",
                     {T1w2_standard_linear, standard("T1wImage"),
                      standard("BrainMask"), standard("FNIRTConfig")},
                     {AtlasTransform_NonLinear}, TRUE))
        \o Run("run_T1_FNIRT_registration", "invwarp",
               {AtlasTransform_NonLinear, standard("T1wImage")},
               {InverseAtlasTransform_NonLinear}, TRUE)
        \o Run("run_T1_FNIRT_registration", "applywarp",
               {T1w_nii, standard("T1wImage"), AtlasTransform_NonLinear,
                AtlasTransform_Linear},
               {File(AtlasDir, "vol", "-", "T1w")}, TRUE)

apply_nonlinear_warp_to_nifti_rois(image, import_labels) ==
    LET image_src == File(T1wDir, "vol", "-", image)
        image_dest == File(AtlasDir, "vol", "-", image)
    IN  If("apply_nonlinear_warp_to_nifti_rois", {image_src}, {},
           Run("apply_nonlinear_warp_to_nifti_rois", "applywarp",
               {image_src, File(AtlasDir, "vol", "-", "T1w"),
                AtlasTransform_NonLinear, AtlasTransform_Linear},
               {image_dest}, TRUE)
           \o (IF import_labels
               THEN Run("apply_nonlinear_warp_to_nifti_rois",
                        "wb_command -volume-label-import",
                        {image_dest, FreeSurferAllLut}, {image_dest}, TRUE)
               ELSE <<>>))

convert_inputs_to_MNI_space(s) ==
    LET labelled(image) == apply_nonlinear_warp_to_nifti_rois(image, TRUE)
    IN  run_T1_FNIRT_registration(s)
        \o ForEach(labelled, SegmentationImages)
        \o apply_nonlinear_warp_to_nifti_rois("brainmask_fs", FALSE)

add_anat_images_to_spec_files(meshes) ==
    LET one(mesh) == AddToSpec("add_anat_images_to_spec_files", mesh,
                               MeshT1wImage(mesh), TRUE)
    IN  ForEach(one, meshes)

create_cifti_subcortical_ROIs(s) ==
    LET one(res) ==
          LET atlas_ROIs == File(RoisDir, "vol", "-", "Atlas_ROIs")
              wmparc_ROIs == File(TempDir, "vol", "-", "wmparc_ROIs")
              ROIs_nii == File(RoisDir, "vol", "-", "ROIs")
          IN  link_to_template_file(s, atlas_ROIs,
                                    data_file("Atlas_ROIs", "-", res),
                                    File(TemplatesDir, "Atlas_ROIs", "-", res))
              \o Run("create_cifti_subcortical_ROIs", "applywarp",
                     {File(AtlasDir, "vol", "-", "wmparc"), atlas_ROIs},
                     {wmparc_ROIs}, TRUE)
              \o Run("create_cifti_subcortical_ROIs",
                     "wb_command -volume-label-import",
                     {wmparc_ROIs, FreeSurferAllLut}, {wmparc_ROIs}, TRUE)
              \o Run("create_cifti_subcortical_ROIs",
                     "wb_command -volume-label-import",
                     {wmparc_ROIs,
                      data_file("hcp_config", "-",
                                "FreeSurferSubcorticalLabelTableLut")},
                     {ROIs_nii}, TRUE)
    IN  ForEach(one, grayord_res)

cras_mat == File(TempDir, "mat", "-", "cras")

\* get_stdout(['mri_info', ...]) and the cras.mat file written from it
write_cras_file ==
    Query("write_cras_file", "mri_info", {fs_mgz("brain.finalsurfs")},
          {cras_mat})

convert_freesurfer_surface(surface, dest_mesh, use_cras, add_to_spec) ==
    LET one(hemi) ==
          LET surf_native == surf_file(surface, hemi, dest_mesh)
          IN  Run("convert_freesurfer_surface", "mris_convert",
                  {fs_surf(hemi, surface)}, {surf_native}, TRUE)
              \o Run("convert_freesurfer_surface", "wb_command -set-structure",
                     {surf_native}, {surf_native}, TRUE)
              \o (IF use_cras
                  THEN Run("convert_freesurfer_surface",
                           "wb_command -surface-apply-affine",
                           {surf_native, cras_mat}, {surf_native}, TRUE)
                  ELSE <<>>)
              \o (IF add_to_spec
                  THEN AddToSpec("convert_freesurfer_surface", dest_mesh,
                                 surf_native, TRUE)
                  ELSE <<>>)
    IN  ForEach(one, Hemispheres)

\* reg_settings['src_mesh'] is T1wNative, reg_settings['dest_mesh'] is
\* AtlasSpaceNative
apply_nonlinear_warp_to_surface(surface) ==
    LET one(hemi) ==
          LET surf_src == surf_file(surface, hemi, T1wNative)
              surf_dest == surf_file(surface, hemi, AtlasSpaceNative)
          IN  Run("apply_nonlinear_warp_to_surface",
                  "wb_command -surface-apply-affine",
                  {surf_src, AtlasTransform_Linear, MeshT1wImage(T1wNative),
                   standard("T1wImage")}, {surf_dest}, FALSE)
              \o Run("apply_nonlinear_warp_to_surface",
                     "wb_command -surface-apply-warpfield",
                     {surf_dest, InverseAtlasTransform_NonLinear,
                      AtlasTransform_NonLinear}, {surf_dest}, FALSE)
              \o AddToSpec("apply_nonlinear_warp_to_surface", AtlasSpaceNative,
                           surf_dest, FALSE)
    IN  ForEach(one, Hemispheres)

convert_FS_surfaces_to_gifti ==
    LET one(surface) ==
          convert_freesurfer_surface(surface, T1wNative, TRUE, TRUE)
          \o apply_nonlinear_warp_to_surface(surface)
    IN  write_cras_file
        \o ForEach(one, <<"white", "pial">>)
        \o convert_freesurfer_surface("sphere", AtlasSpaceNative, FALSE, TRUE)
        \o convert_freesurfer_surface("sphere.reg", AtlasSpaceNative, FALSE,
                                      FALSE)

convert_freesurfer_annot(label_name) ==
    LET one(hemi) ==
          LET label_gii == label_file(label_name, hemi, AtlasSpaceNative)
          IN  If("convert_freesurfer_annot", {fs_annot(hemi, label_name)}, {},
                 Run("convert_freesurfer_annot", "mris_convert",
                     {fs_annot(hemi, label_name), fs_surf(hemi, "white")},
                     {label_gii}, TRUE)
                 \o Run("convert_freesurfer_annot", "wb_command -set-structure",
                        {label_gii}, {label_gii}, TRUE)
                 \o Run("convert_freesurfer_annot", "wb_command -set-map-names",
                        {label_gii}, {label_gii}, TRUE)
                 \o Run("convert_freesurfer_annot",
                        "wb_command -gifti-label-add-prefix",
                        {label_gii}, {label_gii}, TRUE))
    IN  ForEach(one, Hemispheres)

convert_freesurfer_maps(map_dict) ==
    LET one(hemi) ==
          LET map_gii == metric_file(map_dict.mapname, hemi, AtlasSpaceNative)
          IN  Run("convert_freesurfer_maps", "mris_convert",
                  {fs_surf(hemi, map_dict.fsname), fs_surf(hemi, "white")},
                  {map_gii}, TRUE)
              \o Run("convert_freesurfer_maps", "wb_command -set-structure",
                     {map_gii}, {map_gii}, TRUE)
              \o Run("convert_freesurfer_maps", "wb_command -metric-math",
                     {map_gii}, {map_gii}, TRUE)
              \o Run("convert_freesurfer_maps", "wb_command -set-map-names",
                     {map_gii}, {map_gii}, TRUE)
              \o (IF map_dict.mapname = "thickness"
                  THEN Run("convert_freesurfer_maps", "wb_command -metric-math",
                           {map_gii}, {map_gii}, TRUE)
                  ELSE <<>>)
              \o Run("convert_freesurfer_maps", "wb_command -metric-palette",
                     {map_gii}, {map_gii}, TRUE)
    IN  ForEach(one, Hemispheres)

make_midthickness_surfaces(mesh) ==
    LET one(hemi) ==
          LET mid_surf == surf_file("midthickness", hemi, mesh)
          IN  Run("make_midthickness_surfaces", "wb_command -surface-average",
                  {surf_file("white", hemi, mesh), surf_file("pial", hemi, mesh)},
                  {mid_surf}, TRUE)
              \o Run("make_midthickness_surfaces", "wb_command -set-structure",
                     {mid_surf}, {mid_surf}, TRUE)
              \o AddToSpec("make_midthickness_surfaces", mesh, mid_surf, TRUE)
    IN  ForEach(one, Hemispheres)

make_inflated_surfaces(mesh) ==
    LET one(hemi) ==
          LET infl_surf == surf_file("inflated", hemi, mesh)
              vinfl_surf == surf_file("very_inflated", hemi, mesh)
          IN  Run("make_inflated_surfaces",
                  "wb_command -surface-generate-inflated",
                  {surf_file("midthickness", hemi, mesh)},
                  {infl_surf, vinfl_surf}, TRUE)
              \o AddToSpec("make_inflated_surfaces", mesh, infl_surf, TRUE)
              \o AddToSpec("make_inflated_surfaces", mesh, vinfl_surf, TRUE)
    IN  ForEach(one, Hemispheres)

medial_wall_rois_from_thickness_maps(mesh) ==
    LET one(hemi) ==
          LET native_roi == medial_wall_roi_file(hemi, mesh)
              midthickness_gii == surf_file("midthickness", hemi, mesh)
          IN  Run("medial_wall_rois_from_thickness_maps",
                  "wb_command -metric-math",
                  {metric_file("thickness", hemi, mesh)}, {native_roi}, TRUE)
              \o Run("medial_wall_rois_from_thickness_maps",
                     "wb_command -metric-fill-holes",
                     {midthickness_gii, native_roi}, {native_roi}, TRUE)
              \o Run("medial_wall_rois_from_thickness_maps",
                     "wb_command -metric-remove-islands",
                     {midthickness_gii, native_roi}, {native_roi}, TRUE)
              \o Run("medial_wall_rois_from_thickness_maps",
                     "wb_command -set-map-names",
                     {native_roi}, {native_roi}, TRUE)
    IN  ForEach(one, Hemispheres)

\* variant: the annotations are converted before the meshes are finished
process_native_meshes_annot_first(dscalars, labels) ==
    LET finish(mesh) == make_midthickness_surfaces(mesh)
                        \o make_inflated_surfaces(mesh)
        maps(map_dict) == IF map_dict.fsname = "" THEN <<>>
                          ELSE convert_freesurfer_maps(map_dict)
    IN  ForEach(convert_freesurfer_annot, labels)
        \o ForEach(finish, <<T1wNative, AtlasSpaceNative>>)
        \o ForEach(maps, dscalars)
        \o medial_wall_rois_from_thickness_maps(AtlasSpaceNative)

process_native_meshes(dscalars, labels) ==
    LET finish(mesh) == make_midthickness_surfaces(mesh)
                        \o make_inflated_surfaces(mesh)
        maps(map_dict) == IF map_dict.fsname = "" THEN <<>>
                          ELSE convert_freesurfer_maps(map_dict)
    IN  ForEach(finish, <<T1wNative, AtlasSpaceNative>>)
        \o ForEach(convert_freesurfer_annot, labels)
        \o ForEach(maps, dscalars)
        \o medial_wall_rois_from_thickness_maps(AtlasSpaceNative)

\* mesh['meshname'] as it appears in the names of the template files
MeshResName(mesh) == ToString(mesh[2])

copy_sphere_mesh_from_template(s, mesh) ==
    LET one(hemi) ==
          LET sphere_dest == surf_file("sphere", hemi, mesh)
          IN  link_to_template_file(s, sphere_dest,
                  data_file("sphere", hemi, MeshResName(mesh)),
                  File(TemplatesDir, "sphere", hemi, MeshResName(mesh)))
              \o AddToSpec("copy_sphere_mesh_from_template", mesh, sphere_dest,
                           TRUE)
    IN  ForEach(one, Hemispheres)

copy_atlas_roi_from_template(s, mesh) ==
    LET one(hemi) ==
          LET roi_src == data_file("atlasroi", hemi, MeshResName(mesh))
          IN  If("copy_atlas_roi_from_template", {roi_src}, {},
                 link_to_template_file(s, medial_wall_roi_file(hemi, mesh),
                     roi_src,
                     File(TemplatesDir, "atlasroi", hemi, MeshResName(mesh))))
    IN  ForEach(one, Hemispheres)

copy_colin_flat_and_add_to_spec(s, mesh) ==
    LET one(hemi) ==
          LET colin_src == data_file("colin.flat", hemi, MeshResName(mesh))
              colin_dest == surf_file("flat", hemi, mesh)
          IN  If("copy_colin_flat_and_add_to_spec", {colin_src}, {},
                 link_to_template_file(s, colin_dest, colin_src,
                     File(TemplatesDir, "colin.flat", hemi, MeshResName(mesh)))
                 \o AddToSpec("copy_colin_flat_and_add_to_spec", mesh,
                              colin_dest, TRUE))
    IN  ForEach(one, Hemispheres)

\* get_reg_sphere_names
FS_reg_sphere_name == "sphere.reg.reg_LR"

MSMSulc_reg_sphere_name == "sphere.MSMSulc"

calc_areal_distortion_gii(sphere_pre, sphere_reg, AD_gii_out, hemi) ==
    LET pre_va == File(TempDir, "va", hemi, "sphere_pre_va")
        reg_va == File(TempDir, "va", hemi, "sphere_reg_va")
    IN  Run("calc_areal_distortion_gii", "wb_command -surface-vertex-areas",
            {sphere_pre}, {pre_va}, TRUE)
        \o Run("calc_areal_distortion_gii", "wb_command -surface-vertex-areas",
               {sphere_reg}, {reg_va}, TRUE)
        \o Run("calc_areal_distortion_gii", "wb_command -metric-math",
               {pre_va, reg_va}, {AD_gii_out}, TRUE)
        \o Run("calc_areal_distortion_gii", "wb_command -set-map-names",
               {AD_gii_out}, {AD_gii_out}, TRUE)
        \o Run("calc_areal_distortion_gii", "wb_command -metric-palette",
               {AD_gii_out}, {AD_gii_out}, TRUE)

run_fs_reg_LR(reg_sphere) ==
    LET one(hemi) ==
          LET fs_reg_sphere == surf_file(reg_sphere, hemi, AtlasSpaceNative)
          IN  Run("run_fs_reg_LR",
                  "wb_command -surface-sphere-project-unproject",
                  {surf_file("sphere.reg", hemi, AtlasSpaceNative),
                   data_file("fsaverage.sphere", hemi, ToString(high_res)),
                   data_file("fs-to-fs_LR", hemi, ToString(high_res))},
                  {fs_reg_sphere}, TRUE)
              \o calc_areal_distortion_gii(
                     surf_file("sphere", hemi, AtlasSpaceNative), fs_reg_sphere,
                     metric_file("ArealDistortion_FS", hemi, AtlasSpaceNative),
                     hemi)
    IN  ForEach(one, Hemispheres)

\* the file settings.msm_config names
msm_config_file(s) ==
    IF s.msm_config = "user" THEN File(<<"user", 0>>, "conf", "-", "MSM-config")
    ELSE data_file("hcp_config", "-", "MSMSulcStrainFinalconf")

run_MSMSulc_registration(s, reg_sphere_name, FS_reg_sphere) ==
    LET one(hemi) ==
          LET native_sphere == surf_file("sphere", hemi, AtlasSpaceNative)
              fs_LR_sphere == surf_file(FS_reg_sphere, hemi, AtlasSpaceNative)
              affine_mat == File(MSMSulcDir, "mat", hemi, "affine")
              affine_rot_gii == File(MSMSulcDir, "surf", hemi, "sphere_rot")
              native_rot_sphere == surf_file("sphere.rot", hemi, AtlasSpaceNative)
              refsulc_metric == data_file("refsulc", hemi, ToString(high_res))
              msm_out == File(MSMSulcDir, "surf", hemi, "sphere.reg")
              conf_log == File(MSMSulcDir, "logdir", hemi, "conf")
              MSMsulc_sphere == surf_file(reg_sphere_name, hemi, AtlasSpaceNative)
          IN  Run("run_MSMSulc_registration",
                  "wb_command -surface-affine-regression",
                  {native_sphere, fs_LR_sphere}, {affine_mat}, TRUE)
              \o Run("run_MSMSulc_registration",
                     "wb_command -surface-apply-affine",
                     {native_sphere, affine_mat}, {affine_rot_gii}, TRUE)
              \o Run("run_MSMSulc_registration",
                     "wb_command -surface-modify-sphere",
                     {affine_rot_gii}, {affine_rot_gii}, TRUE)
              \o Run("run_MSMSulc_registration", "cp", {affine_rot_gii},
                     {native_rot_sphere}, TRUE)
              \o IfNotDry("run_MSMSulc_registration",
                     Run("run_MSMSulc_registration", "msm",
                         {msm_config_file(s), native_rot_sphere,
                          surf_file("sphere", hemi, HighResMesh),
                          metric_file("sulc", hemi, AtlasSpaceNative),
                          refsulc_metric},
                         {msm_out}, TRUE))
              \o Run("run_MSMSulc_registration", "cp", {msm_config_file(s)},
                     {conf_log}, TRUE)
              \o Run("run_MSMSulc_registration", "cp", {msm_out},
                     {MSMsulc_sphere}, TRUE)
              \o Run("run_MSMSulc_registration", "wb_command -set-structure",
                     {MSMsulc_sphere}, {MSMsulc_sphere}, TRUE)
              \o calc_areal_distortion_gii(native_sphere, MSMsulc_sphere,
                     metric_file("ArealDistortion_MSMSulc", hemi,
                                 AtlasSpaceNative), hemi)
              \o Run("run_MSMSulc_registration", "wb_command -surface-distortion",
                     {native_sphere, MSMsulc_sphere},
                     {metric_file("EdgeDistortion_MSMSulc", hemi,
                                  AtlasSpaceNative)}, TRUE)
    IN  MakeDir("run_MSMSulc_registration", Folder(MSMSulcDir))
        \o ForEach(one, Hemispheres)

\* the name create_reg_sphere returns
reg_sphere_of(reg_name) ==
    IF reg_name = "MSMSulc" THEN MSMSulc_reg_sphere_name
    ELSE FS_reg_sphere_name

\* variant: the MSMSulc registration comes before the FS registration
create_reg_sphere_msm_first(s) ==
    (IF s.reg_name = "MSMSulc"
     THEN run_MSMSulc_registration(s, MSMSulc_reg_sphere_name,
                                   FS_reg_sphere_name)
     ELSE <<>>)
    \o run_fs_reg_LR(FS_reg_sphere_name)

create_reg_sphere(s) ==
    run_fs_reg_LR(FS_reg_sphere_name)
    \o (IF s.reg_name = "MSMSulc"
        THEN run_MSMSulc_registration(s, MSMSulc_reg_sphere_name,
                                      FS_reg_sphere_name)
        ELSE <<>>)

merge_subject_medial_wall_with_atlas_template(reg_sphere) ==
    LET one(hemi) ==
          LET atlas_roi_native_gii ==
                  metric_file("atlasroi", hemi, AtlasSpaceNative)
              native_roi == medial_wall_roi_file(hemi, AtlasSpaceNative)
          IN  Run("merge_subject_medial_wall_with_atlas_template",
                  "wb_command -metric-resample",
                  {medial_wall_roi_file(hemi, HighResMesh),
                   surf_file("sphere", hemi, HighResMesh),
                   surf_file(reg_sphere, hemi, AtlasSpaceNative)},
                  {atlas_roi_native_gii}, FALSE)
              \o Run("merge_subject_medial_wall_with_atlas_template",
                     "wb_command -metric-math",
                     {atlas_roi_native_gii, native_roi}, {native_roi}, FALSE)
    IN  ForEach(one, Hemispheres)

dilate_and_mask_metric(mesh, dscalars) ==
    LET one(d) ==
          LET hemi_(hemi) ==
                LET metric_map == metric_file(d.mapname, hemi, mesh)
                IN  Run("dilate_and_mask_metric", "wb_command -metric-dilate",
                        {metric_map, surf_file("midthickness", hemi, mesh)},
                        {metric_map}, FALSE)
                    \o Run("dilate_and_mask_metric", "wb_command -metric-mask",
                           {metric_map, medial_wall_roi_file(hemi, mesh)},
                           {metric_map}, TRUE)
          IN  IF d.mask_medialwall THEN ForEach(hemi_, Hemispheres) ELSE <<>>
    IN  ForEach(one, dscalars)

create_dscalar(mesh, d) ==
    LET file == dscalar_file(d.mapname, mesh)
        rois == IF d.mask_medialwall
                THEN {medial_wall_roi_file("L", mesh),
                      medial_wall_roi_file("R", mesh)}
                ELSE {}
    IN  Run("create_dscalar", "wb_command -cifti-create-dense-scalar",
            {metric_file(d.mapname, "L", mesh),
             metric_file(d.mapname, "R", mesh)} \cup rois, {file}, TRUE)
        \o Run("create_dscalar", "wb_command -set-map-names", {file}, {file},
               TRUE)
        \o Run("create_dscalar", "wb_command -cifti-palette", {file}, {file},
               TRUE)

\* returns without creating the dlabel when the left label file is missing
create_dlabel(mesh, label_name) ==
    LET file == dlabel_file(label_name, mesh)
        left_label == label_file(label_name, "L", mesh)
        right_label == label_file(label_name, "R", mesh)
    IN  If("create_dlabel", {left_label}, {},
           Run("create_dlabel", "wb_command -cifti-create-label",
               {left_label, right_label, medial_wall_roi_file("L", mesh),
                medial_wall_roi_file("R", mesh)}, {file}, TRUE)
           \o Run("create_dlabel", "wb_command -set-map-names", {file}, {file},
                  TRUE))

add_dense_maps_to_spec_file(mesh, dscalars, labels) ==
    LET maps_folder == DenseMapsFolder(mesh)
        scalar(d) == AddToSpec("add_dense_maps_to_spec_file", mesh,
                               dscalar_file(d.mapname, maps_folder), TRUE)
        label(l) == If("add_dense_maps_to_spec_file",
                       {dlabel_file(l, maps_folder)}, {},
                       AddToSpec("add_dense_maps_to_spec_file", mesh,
                                 dlabel_file(l, maps_folder), TRUE))
    IN  ForEach(scalar, dscalars) \o ForEach(label, labels)

make_dense_map(mesh, dscalars, labels) ==
    LET dl(l) == create_dlabel(mesh, l)
        ds(d) == create_dscalar(mesh, d)
    IN  ForEach(dl, labels) \o ForEach(ds, dscalars)
        \o add_dense_maps_to_spec_file(mesh, dscalars, labels)

(***************************************************************************)
(* Resampling the native mesh to the other mesh spaces.                    *)
(***************************************************************************)

resample_surfs_and_add_to_spec(source_mesh, dest_mesh, current_sphere, current_sphere_mesh) ==
    LET one(surface) ==
          LET hemi_(hemi) ==
                LET surf_out == surf_file(surface, hemi, dest_mesh)
                IN  Run("resample_surfs_and_add_to_spec",
                        "wb_command -surface-resample",
                        {surf_file(surface, hemi, source_mesh),
                         surf_file(current_sphere, hemi, current_sphere_mesh),
                         surf_file("sphere", hemi, dest_mesh)},
                        {surf_out}, FALSE)
                    \o AddToSpec("resample_surfs_and_add_to_spec", dest_mesh,
                                 surf_out, FALSE)
          IN  ForEach(hemi_, Hemispheres)
    IN  ForEach(one, <<"white", "midthickness", "pial">>)

resample_and_mask_metric(d, hemi, source_mesh, dest_mesh, current_sphere) ==
    LET metric_in == metric_file(d.mapname, hemi, source_mesh)
        metric_out == metric_file(d.mapname, hemi, dest_mesh)
        inputs == {metric_in, surf_file(current_sphere, hemi, source_mesh),
                   surf_file("sphere", hemi, dest_mesh),
                   surf_file("midthickness", hemi, source_mesh),
                   surf_file("midthickness", hemi, dest_mesh)}
    IN  IF d.mask_medialwall
        THEN Run("resample_and_mask_metric", "wb_command -metric-resample",
                 inputs \cup {medial_wall_roi_file(hemi, source_mesh)},
                 {metric_out}, FALSE)
             \o Run("resample_and_mask_metric", "wb_command -metric-mask",
                    {metric_out, medial_wall_roi_file(hemi, dest_mesh)},
                    {metric_out}, TRUE)
        ELSE Run("resample_and_mask_metric", "wb_command -metric-resample",
                 inputs, {metric_out}, FALSE)

resample_label(label_name, hemi, source_mesh, dest_mesh, current_sphere) ==
    LET label_in == label_file(label_name, hemi, source_mesh)
    IN  If("resample_label", {label_in}, {},
           Run("resample_label", "wb_command -label-resample",
               {label_in, surf_file(current_sphere, hemi, source_mesh),
                surf_file("sphere", hemi, dest_mesh)},
               {label_file(label_name, hemi, dest_mesh)}, FALSE))

resample_metric_and_label(dscalars, labels, source_mesh, dest_mesh, current_sphere) ==
    LET one(hemi) ==
          LET metric(d) == resample_and_mask_metric(d, hemi, source_mesh,
                                                    dest_mesh, current_sphere)
              label(l) == resample_label(l, hemi, source_mesh, dest_mesh,
                                         current_sphere)
          IN  ForEach(metric, dscalars) \o ForEach(label, labels)
    IN  ForEach(one, Hemispheres)

\* variant: the scalar maps and labels are resampled before the surfaces
deform_to_native_metrics_first(native_mesh, dest_mesh, dscalars, labels, sphere) ==
    resample_metric_and_label(dscalars, labels, native_mesh, dest_mesh,
                              sphere)
    \o resample_surfs_and_add_to_spec(native_mesh, dest_mesh, sphere,
                                      native_mesh)
    \o make_inflated_surfaces(dest_mesh)
    \o make_dense_map(dest_mesh, dscalars, labels)

deform_to_native(native_mesh, dest_mesh, dscalars, labels, sphere) ==
    resample_surfs_and_add_to_spec(native_mesh, dest_mesh, sphere, native_mesh)
    \o make_inflated_surfaces(dest_mesh)
    \o resample_metric_and_label(dscalars, labels, native_mesh, dest_mesh,
                                 sphere)
    \o make_dense_map(dest_mesh, dscalars, labels)

populate_low_res_spec_file(source_mesh, dest_mesh, s, sphere, labels) ==
    copy_atlas_roi_from_template(s, dest_mesh)
    \o copy_sphere_mesh_from_template(s, dest_mesh)
    \o copy_colin_flat_and_add_to_spec(s, dest_mesh)
    \o deform_to_native(source_mesh, dest_mesh, s.dscalars, labels, sphere)

resample_to_native(native_mesh, dest_mesh, s, sphere, labels, reg_sphere_mesh) ==
    copy_sphere_mesh_from_template(s, dest_mesh)
    \o resample_surfs_and_add_to_spec(native_mesh, dest_mesh, sphere,
                                      reg_sphere_mesh)
    \o make_inflated_surfaces(dest_mesh)
    \o add_dense_maps_to_spec_file(dest_mesh, s.dscalars, labels)

(***************************************************************************)
(* The two workflows and run_ciftify_recon_all.                            *)
(***************************************************************************)

\* the registration sphere name resampling_to_t1w_32k looks up
resampling_reg_sphere(reg_name) ==
    IF reg_name = "MSMSulc" THEN MSMSulc_reg_sphere_name
    ELSE FS_reg_sphere_name

\* the low resolution mesh passes; the registration sphere is double checked
\* for the left hemisphere
resampling_to_t1w_32k(s, labels) ==
    LET reg_sphere == resampling_reg_sphere(s.reg_name)
        one(res) ==
          LET dest_mesh == NativeLowResMesh(res)
          IN  If("resampling_to_t1w_32k", {}, {Folder(dest_mesh)},
                 MakeDir("resampling_to_t1w_32k", Folder(dest_mesh)))
              \o add_anat_images_to_spec_files(<<dest_mesh>>)
              \o resample_to_native(T1wNative, dest_mesh, s, reg_sphere,
                                    labels, AtlasSpaceNative)
    IN  Check("resampling_to_t1w_32k",
              surf_file(reg_sphere, "L", AtlasSpaceNative))
        \o ForEach(one, low_res)

\* variant: the medial wall merge comes before create_reg_sphere
run_default_workflow_merge_first(s, meshes, labels) ==
    LET reg_sphere == reg_sphere_of(s.reg_name)
        low(res) == populate_low_res_spec_file(AtlasSpaceNative,
                        LowResMesh(res), s, reg_sphere, labels)
    IN  InStage("create_output_directories",
                create_output_directories(meshes))
        \o InStage("convert_T1_and_freesurfer_inputs",
                   convert_T1_and_freesurfer_inputs)
        \o InStage("prepare_T1_image", prepare_T1_image)
        \o InStage("convert_inputs_to_MNI_space",
                   convert_inputs_to_MNI_space(s))
        \o InStage("add_anat_images_to_spec_files",
                   add_anat_images_to_spec_files(meshes))
        \o InStage("create_cifti_subcortical_ROIs",
                   create_cifti_subcortical_ROIs(s))
        \o InStage("convert_FS_surfaces_to_gifti",
                   convert_FS_surfaces_to_gifti)
        \o InStage("process_native_meshes",
                   process_native_meshes(s.dscalars, labels))
        \o InStage("copy_atlas_roi_from_template",
                   copy_atlas_roi_from_template(s, HighResMesh))
        \o InStage("copy_sphere_mesh_from_template",
                   copy_sphere_mesh_from_template(s, HighResMesh))
        \o InStage("merge_subject_medial_wall_with_atlas_template",
                   merge_subject_medial_wall_with_atlas_template(reg_sphere))
        \o InStage("create_reg_sphere", create_reg_sphere(s))
        \o InStage("dilate_and_mask_metric",
                   dilate_and_mask_metric(AtlasSpaceNative, s.dscalars))
        \o InStage("make_dense_map",
                   make_dense_map(AtlasSpaceNative, s.dscalars, labels))
        \o InStage("add_dense_maps_to_spec_file",
                   add_dense_maps_to_spec_file(T1wNative, s.dscalars, labels))
        \o InStage("copy_colin_flat_and_add_to_spec",
                   copy_colin_flat_and_add_to_spec(s, HighResMesh))
        \o InStage("deform_to_native",
                   deform_to_native(AtlasSpaceNative, HighResMesh, s.dscalars,
                                    labels, reg_sphere))
        \o InStage("populate_low_res_spec_file", ForEach(low, low_res))

run_default_workflow(s, meshes, labels) ==
    LET reg_sphere == reg_sphere_of(s.reg_name)
        low(res) == populate_low_res_spec_file(AtlasSpaceNative,
                        LowResMesh(res), s, reg_sphere, labels)
    IN  InStage("create_output_directories",
                create_output_directories(meshes))
        \o InStage("convert_T1_and_freesurfer_inputs",
                   convert_T1_and_freesurfer_inputs)
        \o InStage("prepare_T1_image", prepare_T1_image)
        \o InStage("convert_inputs_to_MNI_space",
                   convert_inputs_to_MNI_space(s))
        \o InStage("add_anat_images_to_spec_files",
                   add_anat_images_to_spec_files(meshes))
        \o InStage("create_cifti_subcortical_ROIs",
                   create_cifti_subcortical_ROIs(s))
        \o InStage("convert_FS_surfaces_to_gifti",
                   convert_FS_surfaces_to_gifti)
        \o InStage("process_native_meshes",
                   process_native_meshes(s.dscalars, labels))
        \o InStage("copy_atlas_roi_from_template",
                   copy_atlas_roi_from_template(s, HighResMesh))
        \o InStage("copy_sphere_mesh_from_template",
                   copy_sphere_mesh_from_template(s, HighResMesh))
        \o InStage("create_reg_sphere", create_reg_sphere(s))
        \o InStage("merge_subject_medial_wall_with_atlas_template",
                   merge_subject_medial_wall_with_atlas_template(reg_sphere))
        \o InStage("dilate_and_mask_metric",
                   dilate_and_mask_metric(AtlasSpaceNative, s.dscalars))
        \o InStage("make_dense_map",
                   make_dense_map(AtlasSpaceNative, s.dscalars, labels))
        \o InStage("add_dense_maps_to_spec_file",
                   add_dense_maps_to_spec_file(T1wNative, s.dscalars, labels))
        \o InStage("copy_colin_flat_and_add_to_spec",
                   copy_colin_flat_and_add_to_spec(s, HighResMesh))
        \o InStage("deform_to_native",
                   deform_to_native(AtlasSpaceNative, HighResMesh, s.dscalars,
                                    labels, reg_sphere))
        \o InStage("populate_low_res_spec_file", ForEach(low, low_res))

log_build_environment ==
    Query("log_build_environment", "whoami", {}, {})

\* variant: skip_main_wf is not consulted
run_ciftify_recon_all_no_skip(s) ==
    InWorkflow("setup", InStage("log_build_environment",
                                log_build_environment))
    \o InWorkflow("run_default_workflow",
                  run_default_workflow(s, define_meshes(s.resample),
                                       expected_labels))
    \o (IF s.resample
        THEN InWorkflow("resampling_to_t1w_32k",
                 InStage("resampling_to_t1w_32k",
                         resampling_to_t1w_32k(s, expected_labels)))
        ELSE <<>>)

\* variant: the T1w 32k resampling comes first
run_ciftify_recon_all_resample_first(s) ==
    InWorkflow("setup", InStage("log_build_environment",
                                log_build_environment))
    \o (IF s.resample
        THEN InWorkflow("resampling_to_t1w_32k",
                 InStage("resampling_to_t1w_32k",
                         resampling_to_t1w_32k(s, expected_labels)))
        ELSE <<>>)
    \o (IF s.skip_main_wf THEN <<>>
        ELSE InWorkflow("run_default_workflow",
                        run_default_workflow(s, define_meshes(s.resample),
                                             expected_labels)))

\* the statements one invocation executes after Settings is constructed
run_ciftify_recon_all(s) ==
    LET meshes == define_meshes(s.resample)
        labels == expected_labels
    IN  InWorkflow("setup", InStage("log_build_environment",
                                    log_build_environment))
        \o (IF s.skip_main_wf THEN <<>>
            ELSE InWorkflow("run_default_workflow",
                            run_default_workflow(s, meshes, labels)))
        \o (IF s.resample
            THEN InWorkflow("resampling_to_t1w_32k",
                     InStage("resampling_to_t1w_32k",
                             resampling_to_t1w_32k(s, labels)))
            ELSE <<>>)

(***************************************************************************)
(* check_msm_config.  A text is a sequence of characters; "--dopt" is one  *)
(* character of the alphabet, "\n" is the line separator.                  *)
(***************************************************************************)

\* the longest configuration file, in characters
MaxConfLen == 3

\* the longest option name msm prints, and how many options it prints
MaxOptLen == 2

MaxOpts == 2

Alphabet == {"a", "b", "=", "--dopt", "\n"}

Texts(n) == UNION {[1..k -> Alphabet] : k \in 0..n}

OptionNames == UNION {[1..k -> {"a", "b"}] : k \in 1..MaxOptLen}

OptionLists == UNION {[1..k -> OptionNames] : k \in 0..MaxOpts}

\* str.find(c) counted from 1: the first position of c in text, 0 when absent
find(text, c) ==
    IF \E i \in 1..Len(text) : text[i] = c
    THEN CHOOSE i \in 1..Len(text) :
            text[i] = c /\ \A j \in 1..(i - 1) : text[j] # c
    ELSE 0

\* str.rfind(c): the last index (from 0) of c in text, -1 when absent
rfind(text, c) ==
    IF \E i \in 1..Len(text) : text[i] = c
    THEN (CHOOSE i \in 1..Len(text) :
            text[i] = c /\ \A j \in (i + 1)..Len(text) : text[j] # c) - 1
    ELSE -1

\* text[0:stop], with Python's meaning of a negative stop
slice_to(text, stop) ==
    LET last == IF stop >= 0 THEN stop ELSE Len(text) + stop
    IN  SubSeq(text, 1, IF last < 0 THEN 0
                        ELSE IF last > Len(text) THEN Len(text) ELSE last)

\* fp.readline() until it returns the empty string: the lines of the file,
\* each with its line separator
RECURSIVE readlines(_)
readlines(text) ==
    IF text = <<>> THEN <<>>
    ELSE LET nl == find(text, "\n")
             n == IF nl = 0 THEN Len(text) ELSE nl
         IN  <<SubSeq(text, 1, n)>> \o readlines(SubSeq(text, n + 1, Len(text)))

\* arg in err: the substring test of str
in_text(arg, text) ==
    \E i \in 0..(Len(text) - Len(arg)) : SubSeq(text, i + 1, i + Len(arg)) = arg

\* what msm --printoptions writes: one option name per line
RECURSIVE printoptions(_)
printoptions(options) ==
    IF options = <<>> THEN <<>>
    ELSE Head(options) \o <<"\n">> \o printoptions(Tail(options))

msm_arg(line) == slice_to(line, rfind(line, "="))

arg_list_of(text) == MapSeq(msm_arg, readlines(text))

arg_accepted(arg, err) == in_text(arg, err) \/ arg = <<"--dopt">>

\* variant: the result of the comparison is not used
check_msm_config_unchecked(text, options) == TRUE

check_msm_config(text, options) ==
    LET arg_list == arg_list_of(text)
        err == printoptions(options)
    IN  \A i \in 1..Len(arg_list) : arg_accepted(arg_list[i], err)

(***************************************************************************)
(* Settings.                                                               *)
(***************************************************************************)

NoSettings ==
    [reg_name |-> "", msm_config |-> "unset", resample |-> FALSE,
     no_symlinks |-> FALSE, dscalars |-> <<>>, user_xfm |-> FALSE,
     User_AtlasTransform_NonLinear |-> "unset",
     User_AtlasTransform_Linear |-> "unset", skip_main_wf |-> FALSE]

has_key(config, key) == \E i \in 1..Len(config) : config[i].mapname = key

del_key(config, key) ==
    LET keep(d) == d.mapname # key IN SelectSeq(config, keep)

\* the two del statements share one try: a KeyError on the first leaves the
\* second entry in place
define_dscalars(reg_name, dscalars_config) ==
    IF reg_name # "MSMSulc"
    THEN IF ~has_key(dscalars_config, "ArealDistortion_MSMSulc")
         THEN dscalars_config
         ELSE LET c == del_key(dscalars_config, "ArealDistortion_MSMSulc")
              IN  IF ~has_key(c, "EdgeDistortion_MSMSulc") THEN c
                  ELSE del_key(c, "EdgeDistortion_MSMSulc")
    ELSE dscalars_config

\* has_ciftify_recon_all_run: the completeness marker, an output file of the
\* first low resolution mesh
marker_file == dscalar_file("sulc", LowResMesh(low_res[1]))

has_ciftify_recon_all_run(d) == marker_file \in d

\* variant: one user transform is enough
user_transforms_any(read_nonlin_xfm, read_lin_xfm) ==
    IF read_nonlin_xfm \/ read_lin_xfm THEN "both" ELSE "none"

\* __define_registration_settings, lines 393-404: any([...]) and all([...])
\* of the two user transforms
user_transforms(read_nonlin_xfm, read_lin_xfm) ==
    IF read_nonlin_xfm \/ read_lin_xfm
    THEN IF read_nonlin_xfm /\ read_lin_xfm THEN "both" ELSE "exit"
    ELSE "none"

\* variant: the completeness marker is not consulted
has_been_run_before_ignores_marker(path_exists, resample, marker) ==
    IF path_exists
    THEN IF resample THEN "resample_only" ELSE "abort"
    ELSE "full"

\* variant: without the resample flag an existing output is built upon
has_been_run_before_overwrites(path_exists, resample, marker) ==
    IF path_exists /\ resample
    THEN IF marker THEN "resample_only" ELSE "abort"
    ELSE "full"

\* the outcome of __has_been_run_before: "full" (return False after
\* os.makedirs), "resample_only" (return True) or "abort" (sys.exit(1))
has_been_run_before(path_exists, resample, marker) ==
    IF path_exists
    THEN IF resample
         THEN IF marker THEN "resample_only" ELSE "abort"
         ELSE "abort"
    ELSE "full"

(***************************************************************************)
(* The state machine: one invocation, and a later one on the same subject. *)
(***************************************************************************)

\* docopt arguments, and what Settings finds in the environment: whether
\* the freesurfer subject folder exists, the keys of the 'registration'
\* entry of the configuration; MSM_config is "" (not given), "missing" (a
\* path that does not exist) or "user" (an existing file); missing_annot is
\* the set of annotation files the freesurfer subject folder lacks,
\* missing_mgz the set of segmentation volumes it lacks
DefaultArgs ==
    [surf_reg |-> "FS", resample_to_T1w32k |-> FALSE, dry_run |-> FALSE,
     no_symlinks |-> FALSE, MSM_config |-> "", read_non_lin_xfm |-> FALSE,
     read_lin_premat |-> FALSE, fs_folder |-> TRUE,
     registration_config |-> RegistrationKeys, missing_annot |-> {},
     missing_mgz |-> {}]

BaseArgs ==
    {[DefaultArgs EXCEPT !.surf_reg = r, !.resample_to_T1w32k = b,
                         !.dry_run = d] :
        r \in {"FS", "MSMSulc"}, b \in BOOLEAN, d \in BOOLEAN}

\* command lines that differ from a base command line in one option group
ErrorArgs(a) ==
    {[a EXCEPT !.read_lin_premat = TRUE],
     [a EXCEPT !.read_non_lin_xfm = TRUE],
     [a EXCEPT !.fs_folder = FALSE],
     [a EXCEPT !.MSM_config = "missing"]}
    \cup {[a EXCEPT !.registration_config = RegistrationKeys \ {k}] :
             k \in RegistrationKeys}

ExpertArgs(a) ==
    {[a EXCEPT !.no_symlinks = TRUE],
     [a EXCEPT !.read_lin_premat = TRUE, !.read_non_lin_xfm = TRUE],
     [a EXCEPT !.MSM_config = "user"]}

\* freesurfer outputs in which annotations of the expected labels are absent,
\* for the left hemisphere, the right one or both
AnnotArgs(a) ==
    {[a EXCEPT !.missing_annot = m] :
        m \in SUBSET {fs_annot(h, expected_labels[i]) :
                        h \in {"L", "R"}, i \in 1..Len(expected_labels)} \ {{}}}

\* freesurfer outputs in which segmentation volumes are absent
MgzArgs(a) ==
    {[a EXCEPT !.missing_mgz = m] :
        m \in SUBSET {fs_mgz(SegmentationImages[i]) :
                        i \in 1..Len(SegmentationImages)} \ {{}}}

ArgsSet ==
    BaseArgs
    \cup AnnotArgs(DefaultArgs)
    \cup MgzArgs(DefaultArgs)
    \cup UNION {ErrorArgs(a) : a \in BaseArgs}
    \cup UNION {ExpertArgs(a) :
                  a \in {b \in BaseArgs : b.resample_to_T1w32k /\ ~b.dry_run}}

\* configuration files and msm versions: one that matches, one that does not
MsmScenarios ==
    {[conf |-> <<"a", "=", "\n">>, printed |-> << <<"a">> >>],
     [conf |-> <<"b", "=", "\n">>, printed |-> << <<"a">> >>]}

NoStatus ==
    [code |-> -1, at |-> "", wf |-> "", stage |-> "", dry |-> FALSE,
     resample |-> FALSE]

SettingsSpace ==
    {[NoSettings EXCEPT
        !.reg_name = r[1], !.msm_config = r[2], !.resample = b,
        !.no_symlinks = n, !.user_xfm = u,
        !.dscalars = define_dscalars(r[1], DscalarsConfig),
        !.User_AtlasTransform_NonLinear = IF u THEN "nonlin" ELSE "False",
        !.User_AtlasTransform_Linear = IF u THEN "lin" ELSE "False",
        !.skip_main_wf = k] :
        r \in {<<"FS", "None">>, <<"MSMSulc", "default">>,
               <<"MSMSulc", "user">>},
        b \in BOOLEAN, n \in BOOLEAN, u \in BOOLEAN, k \in BOOLEAN}

\* the statements of run_ciftify_recon_all, per Settings object
ProgTable == [s \in SettingsSpace |-> run_ciftify_recon_all(s)]

Prog == ProgTable[settings]

Cur == Prog[ip]

AtStmt(kind) == pc = "run" /\ ip <= Len(Prog) /\ Cur.kind = kind

IsTemp(f) == f[1] = TempDir \/ f[2] = "tmpdir"

Existing ==
    disk \cup tmp \cup (InputFiles \ (args.missing_annot \cup args.missing_mgz))

\* variant: only a negative return code is fatal
exits_on_negative(returncode) == returncode < 0

\* run(): if returncode: sys.exit(1)
exits_on(returncode) == returncode # 0

\* variant: only the caller's dryrun argument is handed on
run_dryrun_argument(DRYRUN, dryrun) == dryrun

\* run(cmd, dryrun): the dryrun flag handed on to ciftify.utils.run
run_dryrun(DRYRUN, dryrun) == DRYRUN \/ dryrun

\* the dryrun argument of the call site
caller_dryrun(stmt) == IF stmt.dry THEN args.dry_run ELSE FALSE

\* the functions examined on their own are not part of this specification
UnitIdle ==
    /\ roi = <<>>
    /\ dsc = <<>>
    /\ va = <<>>
    /\ cache = <<>>
    /\ subjects = <<>>
    /\ race = <<>>

Init ==
    /\ args \in ArgsSet
    /\ \E m \in MsmScenarios :
          /\ (args.surf_reg # "MSMSulc" => m.printed[1] = SubSeq(m.conf, 1, 1))
          /\ conf = m.conf
          /\ printed = m.printed
    /\ settings = NoSettings
    /\ pc = "set_registration_mode"
    /\ ip = 0
    /\ status = NoStatus
    /\ previous = NoStatus
    /\ disk = {}
    /\ manifest = [m \in AllMeshes |-> <<>>]
    /\ tmp = {}
    /\ calls = <<>>
    /\ disk0 = {}
    /\ manifest0 = [m \in AllMeshes |-> <<>>]
    /\ written = {}
    /\ removed = {}
    /\ verdict = "none"
    /\ UnitIdle

\* sys.exit(1), or an uncaught exception: the TempDir context removes the
\* temporary directory on the way out
Exit(code, at) ==
    /\ pc' = "exited"
    /\ status' = [code |-> code, at |-> at,
                  wf |-> IF pc = "run" /\ ip <= Len(Prog) THEN Cur.wf ELSE "",
                  stage |-> IF pc = "run" /\ ip <= Len(Prog) THEN Cur.stage
                            ELSE "",
                  dry |-> args.dry_run, resample |-> args.resample_to_T1w32k]
    /\ tmp' = {}

\* Settings.__init__, lines 261-264: __set_registration_mode, then the
\* resample and no_symlinks flags
SetRegistrationMode ==
    /\ pc = "set_registration_mode"
    /\ IF args.surf_reg = "MSMSulc"
       THEN IF args.MSM_config = "missing"
            THEN /\ Exit(1, "__set_registration_mode")
                 /\ UNCHANGED <<settings, calls, verdict>>
            ELSE /\ calls' = Append(calls,
                                    <<"Popen", "msm --printoptions", FALSE, 0>>)
                 /\ IF check_msm_config(conf, printed)
                    THEN /\ verdict' = "accept"
                         /\ settings' =
                              [settings EXCEPT
                                 !.reg_name = args.surf_reg,
                                 !.msm_config = IF args.MSM_config = ""
                                                THEN "default" ELSE "user",
                                 !.resample = args.resample_to_T1w32k,
                                 !.no_symlinks = args.no_symlinks]
                         /\ pc' = "get_subject"
                         /\ UNCHANGED <<status, tmp>>
                    ELSE /\ verdict' = "reject"
                         /\ Exit(1, "__set_registration_mode")
                         /\ UNCHANGED settings
       ELSE /\ settings' = [settings EXCEPT
                              !.reg_name = args.surf_reg,
                              !.msm_config = "None",
                              !.resample = args.resample_to_T1w32k,
                              !.no_symlinks = args.no_symlinks]
            /\ pc' = "get_subject"
            /\ UNCHANGED <<status, tmp, calls, verdict>>
    /\ UNCHANGED <<args, ip, previous, disk, manifest, disk0, manifest0,
                   written, removed, conf, printed>>
    /\ UNCHANGED unitVars

\* lines 265-269: __get_subject (Subject.__set_fs_folder), the license, T2
\* and __define_dscalars
GetSubject ==
    /\ pc = "get_subject"
    /\ IF ~args.fs_folder
       THEN /\ Exit(1, "Subject.__set_fs_folder")
            /\ UNCHANGED settings
       ELSE /\ settings' = [settings EXCEPT
                              !.dscalars = define_dscalars(settings.reg_name,
                                                           DscalarsConfig)]
            /\ pc' = "define_registration_settings"
            /\ UNCHANGED <<status, tmp>>
    /\ UNCHANGED <<args, ip, previous, disk, manifest, calls, disk0, manifest0,
                   written, removed, conf, printed, verdict>>
    /\ UNCHANGED unitVars

\* lines 270-271: __define_registration_settings
DefineRegistrationSettings ==
    /\ pc = "define_registration_settings"
    /\ IF ~(RegistrationKeys \subseteq args.registration_config)
       THEN /\ Exit(1, "__define_registration_settings")
            /\ UNCHANGED settings
       ELSE IF user_transforms(args.read_non_lin_xfm,
                               args.read_lin_premat) # "none"
       THEN IF user_transforms(args.read_non_lin_xfm,
                               args.read_lin_premat) = "both"
            THEN /\ settings' = [settings EXCEPT
                                   !.user_xfm = TRUE,
                                   !.User_AtlasTransform_NonLinear = "nonlin",
                                   !.User_AtlasTransform_Linear = "lin"]
                 /\ pc' = "has_been_run_before"
                 /\ UNCHANGED <<status, tmp>>
            ELSE /\ Exit(1, "__define_registration_settings")
                 /\ UNCHANGED settings
       ELSE /\ settings' = [settings EXCEPT
                              !.User_AtlasTransform_NonLinear = "False",
                              !.User_AtlasTransform_Linear = "False"]
            /\ pc' = "has_been_run_before"
            /\ UNCHANGED <<status, tmp>>
    /\ UNCHANGED <<args, ip, previous, disk, manifest, calls, disk0, manifest0,
                   written, removed, conf, printed, verdict>>
    /\ UNCHANGED unitVars

\* line 272: __has_been_run_before; os.makedirs creates the output root
HasBeenRunBefore ==
    /\ pc = "has_been_run_before"
    /\ LET decision == has_been_run_before(Folder(RootDir) \in disk,
                                           settings.resample,
                                           has_ciftify_recon_all_run(disk))
       IN  IF decision = "abort"
           THEN /\ Exit(1, "__has_been_run_before")
                /\ UNCHANGED <<settings, disk>>
           ELSE /\ settings' = [settings EXCEPT
                                  !.skip_main_wf = (decision = "resample_only")]
                /\ disk' = IF decision = "full"
                           THEN disk \cup {Folder(RootDir)} ELSE disk
                /\ pc' = "main"
                /\ UNCHANGED <<status, tmp>>
    /\ UNCHANGED <<args, ip, previous, manifest, calls, disk0, manifest0,
                   written, removed, conf, printed, verdict>>
    /\ UNCHANGED unitVars

\* main, lines 1551-1567: the temporary directory is created and
\* run_ciftify_recon_all starts
Main ==
    /\ pc = "main"
    /\ pc' = "run"
    /\ ip' = 1
    /\ UNCHANGED <<args, settings, status, previous, disk, manifest, tmp,
                   calls, disk0, manifest0, written, removed, conf, printed,
                   verdict>>
    /\ UNCHANGED unitVars

\* run(cmd) in dry-run mode: ciftify.utils.run logs the command and returns 0
StepRunDry ==
    /\ AtStmt("run")
    /\ run_dryrun(args.dry_run, caller_dryrun(Cur))
    /\ calls' = Append(calls, <<"run", Cur.tool, TRUE, 0>>)
    /\ ip' = ip + 1
    /\ UNCHANGED <<args, settings, pc, status, previous, disk, manifest, tmp,
                   disk0, manifest0, written, removed, conf, printed, verdict>>
    /\ UNCHANGED unitVars

\* run(cmd): the command is executed and returns 0; a command succeeds only
\* when the files it reads exist
StepRunOk ==
    /\ AtStmt("run")
    /\ ~run_dryrun(args.dry_run, caller_dryrun(Cur))
    /\ Cur.reads \subseteq Existing
    /\ calls' = Append(calls, <<"run", Cur.tool, FALSE, 0>>)
    /\ disk' = disk \cup {f \in Cur.writes : ~IsTemp(f)}
    /\ tmp' = tmp \cup {f \in Cur.writes : IsTemp(f)}
    /\ written' = written \cup {f \in Cur.writes : ~IsTemp(f)}
    /\ manifest' = IF Cur.spec = <<>> THEN manifest
                   ELSE [manifest EXCEPT
                           ![Cur.spec[1][1]] = Append(@, Cur.spec[1][2])]
    /\ ip' = ip + 1
    /\ UNCHANGED <<args, settings, pc, status, previous, disk0, manifest0,
                   removed, conf, printed, verdict>>
    /\ UNCHANGED unitVars

\* run(cmd): the command returns a failure code and run() calls sys.exit(1)
StepRunFail ==
    /\ AtStmt("run")
    /\ ~run_dryrun(args.dry_run, caller_dryrun(Cur))
    /\ calls' = Append(calls, <<"run", Cur.tool, FALSE, 1>>)
    /\ IF exits_on(1)
       THEN /\ Exit(1, "run")
            /\ UNCHANGED ip
       ELSE /\ ip' = ip + 1
            /\ UNCHANGED <<pc, status, tmp>>
    /\ UNCHANGED <<args, settings, previous, disk, manifest, disk0,
                   manifest0, written, removed, conf, printed, verdict>>
    /\ UNCHANGED unitVars

\* ciftify.utils.make_dir(dir, DRYRUN)
StepMakeDir ==
    /\ AtStmt("mkdir")
    /\ disk' = IF args.dry_run THEN disk
               ELSE disk \cup {f \in Cur.writes : ~IsTemp(f)}
    /\ tmp' = IF args.dry_run THEN tmp
              ELSE tmp \cup {f \in Cur.writes : IsTemp(f)}
    /\ written' = IF args.dry_run THEN written
                  ELSE written \cup {f \in Cur.writes : ~IsTemp(f) /\ f \notin disk}
    /\ ip' = ip + 1
    /\ UNCHANGED <<args, settings, pc, status, previous, manifest, calls,
                   disk0, manifest0, removed, conf, printed, verdict>>
    /\ UNCHANGED unitVars

\* os.symlink(target, link): FileExistsError when the link exists
StepSymlink ==
    /\ AtStmt("symlink")
    /\ IF Cur.writes \cap disk # {}
       THEN /\ Exit(1, "FileExistsError")
            /\ UNCHANGED <<ip, disk, written>>
       ELSE /\ disk' = disk \cup Cur.writes
            /\ written' = written \cup Cur.writes
            /\ ip' = ip + 1
            /\ UNCHANGED <<pc, status, tmp>>
    /\ UNCHANGED <<args, settings, previous, manifest, calls, disk0,
                   manifest0, removed, conf, printed, verdict>>
    /\ UNCHANGED unitVars

\* if os.path.exists(...) / if not DRYRUN
StepIf ==
    /\ AtStmt("if")
    /\ ip' = IF /\ Cur.notdry => ~args.dry_run
                /\ Cur.pos \subseteq Existing
                /\ Cur.neg \cap Existing = {}
             THEN ip + 1
             ELSE ip + 1 + Cur.skip
    /\ UNCHANGED <<args, settings, pc, status, previous, disk, manifest, tmp,
                   calls, disk0, manifest0, written, removed, conf, printed,
                   verdict>>
    /\ UNCHANGED unitVars

\* if not os.path.exists(file): sys.exit(1)
StepCheck ==
    /\ AtStmt("check")
    /\ IF Cur.pos \subseteq Existing
       THEN /\ ip' = ip + 1
            /\ UNCHANGED <<pc, status, tmp>>
       ELSE /\ Exit(1, Cur.fn)
            /\ UNCHANGED ip
    /\ UNCHANGED <<args, settings, previous, disk, manifest, calls, disk0,
                   manifest0, written, removed, conf, printed, verdict>>
    /\ UNCHANGED unitVars

\* get_stdout(cmd): executed whatever DRYRUN is
StepQuery ==
    /\ AtStmt("query")
    /\ Cur.reads \subseteq Existing
    /\ calls' = Append(calls, <<"get_stdout", Cur.tool, FALSE, 0>>)
    /\ tmp' = tmp \cup Cur.writes
    /\ ip' = ip + 1
    /\ UNCHANGED <<args, settings, pc, status, previous, disk, manifest,
                   disk0, manifest0, written, removed, conf, printed, verdict>>
    /\ UNCHANGED unitVars

\* run_ciftify_recon_all returns 0
Finish ==
    /\ pc = "run"
    /\ ip = Len(Prog) + 1
    /\ Exit(0, "Done")
    /\ UNCHANGED <<args, settings, ip, previous, disk, manifest, calls, disk0,
                   manifest0, written, removed, conf, printed, verdict>>
    /\ UNCHANGED unitVars

\* a user removes a registration sphere from a completed output
UserRemoves ==
    /\ pc = "exited"
    /\ status.code = 0
    /\ previous.code = -1
    /\ removed = {}
    /\ \E h \in {"L", "R"} :
          LET f == surf_file(reg_sphere_of(settings.reg_name), h,
                             AtlasSpaceNative)
          IN  /\ f \in disk
              /\ disk' = disk \ {f}
              /\ removed' = {f}
    /\ UNCHANGED <<args, settings, pc, ip, status, previous, manifest, tmp,
                   calls, disk0, manifest0, written, conf, printed, verdict>>
    /\ UNCHANGED unitVars

\* a later invocation on the same subject, without cleanup: the same command
\* line except for the resample and dry-run flags
Rerun ==
    /\ pc = "exited"
    /\ previous.code = -1
    /\ \E b \in BOOLEAN, d \in BOOLEAN :
          args' = [args EXCEPT !.resample_to_T1w32k = b, !.dry_run = d]
    /\ previous' = status
    /\ status' = NoStatus
    /\ settings' = NoSettings
    /\ pc' = "set_registration_mode"
    /\ ip' = 0
    /\ calls' = <<>>
    /\ disk0' = disk
    /\ manifest0' = manifest
    /\ written' = {}
    /\ verdict' = "none"
    /\ UNCHANGED <<disk, manifest, tmp, removed, conf, printed>>
    /\ UNCHANGED unitVars

Next ==
    \/ SetRegistrationMode
    \/ GetSubject
    \/ DefineRegistrationSettings
    \/ HasBeenRunBefore
    \/ Main
    \/ StepRunDry
    \/ StepRunOk
    \/ StepRunFail
    \/ StepMakeDir
    \/ StepSymlink
    \/ StepIf
    \/ StepCheck
    \/ StepQuery
    \/ Finish
    \/ UserRemoves
    \/ Rerun

Spec == Init /\ [][Next]_vars

(***************************************************************************)
(* check_msm_config on its own: every configuration file and every list of *)
(* printed options within the bounds.                                      *)
(***************************************************************************)

InitMsm ==
    /\ conf \in Texts(MaxConfLen)
    /\ printed \in OptionLists
    /\ verdict = "none"
    /\ args = [DefaultArgs EXCEPT !.surf_reg = "MSMSulc", !.MSM_config = "user"]
    /\ settings = NoSettings
    /\ pc = "set_registration_mode"
    /\ ip = 0
    /\ status = NoStatus
    /\ previous = NoStatus
    /\ disk = {}
    /\ manifest = [m \in AllMeshes |-> <<>>]
    /\ tmp = {}
    /\ calls = <<>>
    /\ disk0 = {}
    /\ manifest0 = [m \in AllMeshes |-> <<>>]
    /\ written = {}
    /\ removed = {}
    /\ UnitIdle

CheckMsmConfig ==
    /\ verdict = "none"
    /\ verdict' = IF check_msm_config(conf, printed) THEN "accept" ELSE "reject"
    /\ UNCHANGED <<pipeVars, conf, printed>>
    /\ UNCHANGED unitVars

NextMsm == CheckMsmConfig

SpecMsm == InitMsm /\ [][NextMsm]_vars

(* Functions examined on their own.  The pipeline does not move in these   *)
(* specifications.                                                         *)
(***************************************************************************)

PipelineIdle ==
    /\ args = DefaultArgs
    /\ settings = NoSettings
    /\ pc = "set_registration_mode"
    /\ ip = 0
    /\ status = NoStatus
    /\ previous = NoStatus
    /\ disk = {}
    /\ manifest = [m \in AllMeshes |-> <<>>]
    /\ tmp = {}
    /\ calls = <<>>
    /\ disk0 = {}
    /\ manifest0 = [m \in AllMeshes |-> <<>>]
    /\ written = {}
    /\ removed = {}
    /\ conf = <<>>
    /\ printed = <<>>
    /\ verdict = "none"

\* vertices of the native mesh of one hemisphere
NumVertices == 3

Vertices == 1..NumVertices

\* a metric file that holds a mask: 0 or 1 per vertex
Masks == [Vertices -> {0, 1}]

\* variant: the product of the two masks
merge_medial_wall_product(atlas, individual) ==
    [v \in Vertices |-> IF atlas[v] * individual[v] > 0 THEN 1 ELSE 0]

\* wb_command -metric-math "(atlas + individual) > 0"
merge_medial_wall(atlas, individual) ==
    [v \in Vertices |-> IF atlas[v] + individual[v] > 0 THEN 1 ELSE 0]

\* the resampled atlas roi (atlas_roi_native_gii) and the subject's roi
\* (native_roi) before the merge; individual keeps the subject's roi as it
\* was
InitMerge ==
    /\ roi \in {[atlas_roi_native |-> a, native_roi |-> n, individual |-> n,
                 merged |-> FALSE] : a \in Masks, n \in Masks}
    /\ dsc = <<>>
    /\ va = <<>>
    /\ cache = <<>>
    /\ subjects = <<>>
    /\ race = <<>>
    /\ PipelineIdle

\* merge_subject_medial_wall_with_atlas_template, for one hemisphere: the
\* result of -metric-math replaces native_roi
MergeSubjectMedialWall ==
    /\ ~roi.merged
    /\ roi' = [roi EXCEPT
                 !.native_roi = merge_medial_wall(roi.atlas_roi_native,
                                                  roi.native_roi),
                 !.merged = TRUE]
    /\ UNCHANGED <<race, pipeVars, msmVars, dsc, va, cache, subjects>>

SpecMerge == InitMerge /\ [][MergeSubjectMedialWall]_vars

\* the 'dscalars' entries a configuration file can hold: any of the entries
\* of the default configuration, in its order
DscalarsConfigs ==
    {LET keep(d) == d.mapname \in names IN SelectSeq(DscalarsConfig, keep) :
        names \in SUBSET {DscalarsConfig[i].mapname :
                            i \in 1..Len(DscalarsConfig)}}

InitDscalars ==
    /\ dsc \in {[reg_name |-> r, dscalars_config |-> c, dscalars |-> <<>>,
                 defined |-> FALSE] :
                  r \in {"FS", "MSMSulc"}, c \in DscalarsConfigs}
    /\ roi = <<>>
    /\ va = <<>>
    /\ cache = <<>>
    /\ subjects = <<>>
    /\ race = <<>>
    /\ PipelineIdle

\* Settings.__init__, line 268: self.dscalars = self.__define_dscalars()
DefineDscalars ==
    /\ ~dsc.defined
    /\ dsc' = [dsc EXCEPT
                 !.dscalars = define_dscalars(dsc.reg_name, dsc.dscalars_config),
                 !.defined = TRUE]
    /\ UNCHANGED <<race, pipeVars, msmVars, roi, va, cache, subjects>>

SpecDscalars == InitDscalars /\ [][DefineDscalars]_vars

(***************************************************************************)
(* calc_areal_distortion_gii.  Vertex areas are positive; they are whole   *)
(* numbers here, and the map holds the whole part (floor) of the           *)
(* logarithm.                                                              *)
(***************************************************************************)

\* the largest vertex area
MaxArea == 3

\* wb_command -surface-vertex-areas: a positive area per vertex
VertexAreas == [Vertices -> 1..MaxArea]

\* floor(ln(n / d) / ln(2)) for positive n and d
RECURSIVE log2_floor(_, _)
log2_floor(n, d) ==
    IF n >= 2 * d THEN log2_floor(n, 2 * d) + 1
    ELSE IF n < d THEN log2_floor(2 * n, d) - 1
    ELSE 0

\* variant: the two variables of the expression exchanged
areal_distortion_exchanged(sphere, spherereg) ==
    [v \in Vertices |-> log2_floor(sphere[v], spherereg[v])]

\* wb_command -metric-math "(ln(spherereg / sphere) / ln(2))"
areal_distortion(sphere, spherereg) ==
    [v \in Vertices |-> log2_floor(spherereg[v], sphere[v])]

\* the vertex areas of the sphere before the registration (sphere_pre) and of
\* the registered sphere (sphere_reg)
InitVa ==
    /\ va \in {[pre_va |-> a, reg_va |-> b, AD_gii_out |-> <<>>] :
                 a \in VertexAreas, b \in VertexAreas}
    /\ roi = <<>>
    /\ dsc = <<>>
    /\ cache = <<>>
    /\ subjects = <<>>
    /\ race = <<>>
    /\ PipelineIdle

\* calc_areal_distortion_gii: -var sphere pre_va -var spherereg reg_va
CalcArealDistortion ==
    /\ va.AD_gii_out = <<>>
    /\ va' = [va EXCEPT !.AD_gii_out = areal_distortion(va.pre_va, va.reg_va)]
    /\ UNCHANGED <<race, pipeVars, msmVars, roi, dsc, cache, subjects>>

SpecVa == InitVa /\ [][CalcArealDistortion]_vars

(***************************************************************************)
(* link_to_template_file called by several subject processes for the same  *)
(* template, in symlink mode and not in a dry run.  cp is not atomic: it   *)
(* opens the destination, which creates or truncates it, and then writes.  *)
(***************************************************************************)

\* subject processes that run at the same time
NumSubjects == 3

Subjects == 1..NumSubjects

\* the cache folder may exist already, with or without the file
InitLink ==
    /\ cache \in {[folder |-> FALSE, file |-> "absent", writers |-> {}],
                  [folder |-> TRUE, file |-> "absent", writers |-> {}],
                  [folder |-> TRUE, file |-> "complete", writers |-> {}]}
    /\ subjects = [p \in Subjects |-> [at |-> "isfile", link |-> "none"]]
    /\ roi = <<>>
    /\ dsc = <<>>
    /\ va = <<>>
    /\ race = <<>>
    /\ PipelineIdle

\* line 526: if not os.path.isfile(via_path); a file that is being written
\* is a file
IsFile(p) ==
    /\ subjects[p].at = "isfile"
    /\ subjects' = [subjects EXCEPT
                      ![p].at = IF cache.file # "absent" THEN "symlink"
                                ELSE "exists"]
    /\ UNCHANGED <<race, pipeVars, msmVars, roi, dsc, va, cache>>

\* line 527: if not os.path.exists(via_folder)
FolderExists(p) ==
    /\ subjects[p].at = "exists"
    /\ subjects' = [subjects EXCEPT
                      ![p].at = IF cache.folder THEN "cp" ELSE "mkdir"]
    /\ UNCHANGED <<race, pipeVars, msmVars, roi, dsc, va, cache>>

\* line 528: run(['mkdir', '-p', via_folder]); -p accepts an existing folder
MkdirP(p) ==
    /\ subjects[p].at = "mkdir"
    /\ cache' = [cache EXCEPT !.folder = TRUE]
    /\ subjects' = [subjects EXCEPT ![p].at = "cp"]
    /\ UNCHANGED <<race, pipeVars, msmVars, roi, dsc, va>>

\* line 529: run(['cp', global_file, via_path]) opens via_path
CpOpen(p) ==
    /\ subjects[p].at = "cp"
    /\ cache' = [cache EXCEPT !.file = "partial", !.writers = @ \cup {p}]
    /\ subjects' = [subjects EXCEPT ![p].at = "cp_write"]
    /\ UNCHANGED <<race, pipeVars, msmVars, roi, dsc, va>>

\* line 529: cp has written the whole file and returns; the file is complete
\* once every cp that opened it has written it
CpClose(p) ==
    /\ subjects[p].at = "cp_write"
    /\ cache' = [cache EXCEPT
                   !.writers = @ \ {p},
                   !.file = IF cache.writers \ {p} = {} THEN "complete"
                            ELSE "partial"]
    /\ subjects' = [subjects EXCEPT ![p].at = "symlink"]
    /\ UNCHANGED <<race, pipeVars, msmVars, roi, dsc, va>>

\* lines 531-533: os.symlink(via_path, subject_file); link records what the
\* cache file was when the link was made
OsSymlink(p) ==
    /\ subjects[p].at = "symlink"
    /\ subjects' = [subjects EXCEPT ![p].at = "done", ![p].link = cache.file]
    /\ UNCHANGED <<race, pipeVars, msmVars, roi, dsc, va, cache>>

NextLink ==
    \E p \in Subjects :
        \/ IsFile(p)
        \/ FolderExists(p)
        \/ MkdirP(p)
        \/ CpOpen(p)
        \/ CpClose(p)
        \/ OsSymlink(p)

SpecLink == InitLink /\ [][NextLink]_vars

(***************************************************************************)
(* Settings.__has_been_run_before called by invocations for the same       *)
(* subject that start at the same time.  The existence check and the       *)
(* creation of the output root are two steps; the completeness marker is   *)
(* written at the end of a pipeline and does not change in between.        *)
(***************************************************************************)

\* invocations that start at the same time
NumInvocations == 2

Invocations == 1..NumInvocations

\* variant: os.makedirs(path, exist_ok=True)
makedirs_exist_ok(path_exists) == FALSE

\* line 362: os.makedirs(self.subject.path) raises FileExistsError when the
\* path exists
makedirs_raises(path_exists) == path_exists

\* the output root may exist already, with or without the marker; every
\* invocation has its own resample flag
InitRace ==
    /\ \E root \in BOOLEAN, marker \in BOOLEAN :
          /\ marker => root
          /\ race \in {[root |-> root, root0 |-> root, marker |-> marker,
                        procs |-> ps] :
                          ps \in [Invocations ->
                                    {[at |-> "exists", resample |-> b,
                                      seen |-> "none", outcome |-> "none",
                                      called |-> FALSE] :
                                        b \in BOOLEAN}]}
    /\ roi = <<>>
    /\ dsc = <<>>
    /\ va = <<>>
    /\ cache = <<>>
    /\ subjects = <<>>
    /\ PipelineIdle

\* lines 347-358: if os.path.exists(self.subject.path) and what follows
PathExists(p) ==
    /\ race.procs[p].at = "exists"
    /\ LET decision == has_been_run_before(race.root, race.procs[p].resample,
                                           race.marker)
       IN  race' = [race EXCEPT
                      !.procs[p].at = CASE decision = "full" -> "makedirs"
                                        [] decision = "abort" -> "exited"
                                        [] OTHER -> "main",
                      !.procs[p].seen = IF race.root THEN "present"
                                        ELSE "absent",
                      !.procs[p].outcome = IF decision = "full" THEN "none"
                                           ELSE decision]
    /\ UNCHANGED <<pipeVars, msmVars, roi, dsc, va, cache, subjects>>

\* lines 360-366: os.makedirs creates the path; any exception, the one for
\* an existing path included, is caught and followed by sys.exit(1); the
\* third case is a path that cannot be created
MakeDirs(p) ==
    /\ race.procs[p].at = "makedirs"
    /\ \/ /\ ~makedirs_raises(race.root)
          /\ race' = [race EXCEPT !.root = TRUE, !.procs[p].at = "main",
                                  !.procs[p].outcome = "full"]
       \/ /\ makedirs_raises(race.root)
          /\ race' = [race EXCEPT !.procs[p].at = "exited",
                                  !.procs[p].outcome = "abort"]
       \/ /\ ~race.root
          /\ race' = [race EXCEPT !.procs[p].at = "exited",
                                  !.procs[p].outcome = "abort"]
    /\ UNCHANGED <<pipeVars, msmVars, roi, dsc, va, cache, subjects>>

\* the invocation goes on to main and issues its first external call
FirstCall(p) ==
    /\ race.procs[p].at = "main"
    /\ race' = [race EXCEPT !.procs[p].at = "running",
                            !.procs[p].called = TRUE]
    /\ UNCHANGED <<pipeVars, msmVars, roi, dsc, va, cache, subjects>>

NextRace ==
    \E p \in Invocations :
        \/ PathExists(p)
        \/ MakeDirs(p)
        \/ FirstCall(p)

SpecRace == InitRace /\ [][NextRace]_vars

(***************************************************************************)
(* Properties.                                                             *)
(***************************************************************************)

\* the option names of a configuration file: per line, the text before its
\* last "=" (the whole line when it has none; an empty line names nothing)
line_body(line) ==
    IF line[Len(line)] = "\n" THEN SubSeq(line, 1, Len(line) - 1) ELSE line

option_name(line) ==
    LET body == line_body(line)
    IN  IF rfind(body, "=") >= 0 THEN SubSeq(body, 1, rfind(body, "="))
        ELSE body

ConfigOptionNames(text) ==
    {option_name(l) : l \in SeqRange(readlines(text))} \ {<<>>}

\* the configuration file names an option, other than --dopt, that is not
\* one of the options msm prints
OptionMismatch ==
    \E n \in ConfigOptionNames(conf) :
        n # <<"--dopt">> /\ n \notin SeqRange(printed)

RootExisted == Folder(RootDir) \in disk0

RootCreated == Folder(RootDir) \in disk \ disk0

MarkerExisted == marker_file \in disk0

\* the invocation got as far as the resume decision
Decided ==
    \/ pc \in {"main", "run"}
    \/ pc = "exited" /\ status.at \notin {"__set_registration_mode",
                                          "Subject.__set_fs_folder",
                                          "__define_registration_settings"}

ResumeAborted == pc = "exited" /\ status.at = "__has_been_run_before"

RunCalls == {i \in 1..Len(calls) : calls[i][1] = "run"}

\* calls that were executed, not just logged
Executed == {i \in RunCalls : ~calls[i][3]}

SubjectTree(d) == {f \in d : InSubjectTree(f)}

RegSphere(h) == surf_file(reg_sphere_of(args.surf_reg), h, AtlasSpaceNative)

C4_MissingSphereEitherHemisphere ==
    settings.skip_main_wf /\ (\E h \in {"L", "R"} : RegSphere(h) \notin disk0) =>
        /\ written = {}
        /\ manifest = manifest0
        /\ RunCalls = {}
        /\ pc = "exited" => status.code # 0

\* C5: when a command executed through run() returns a failure code, the
\* invocation ends there with a non-zero status: the failed call is the last
\* call (no later call, no retry), and the step leaves every file and every
\* manifest entry as it was.
C5_FailureStops ==
    [][(\E i \in 1..Len(calls') : calls'[i][1] = "run" /\ calls'[i][4] # 0)
       /\ previous' = previous
       => /\ pc' = "exited"
          /\ status'.code # 0
          /\ \A i \in 1..Len(calls') : calls'[i][4] # 0 => i = Len(calls')
          /\ calls' = calls \/ calls' = Append(calls, calls'[Len(calls')])
          /\ disk' = disk
          /\ manifest' = manifest
          /\ written' = written]_vars

C5_Witness ==
    /\ pc = "exited"
    /\ status.at = "run"
    /\ status.code = 1
    /\ calls[Len(calls)][4] # 0
    /\ Len(calls) > 1
    /\ written # {}
    /\ written \subseteq disk

\* C6: after a full run failed at a stage after the output root was created,
\* a later invocation on the same subject is refused by the resume decision,
\* with or without the resample flag: it is never accepted as resample-only.
C6_FailedRunRefused ==
    previous.code # 0 /\ previous.wf \in {"run_default_workflow",
                                          "resampling_to_t1w_32k"} =>
        /\ pc \notin {"main", "run"}
        /\ ~settings.skip_main_wf
        /\ Decided => ResumeAborted

\* what Settings treats as a configuration error
ConfigurationError ==
    \/ ~args.fs_folder
    \/ ~(RegistrationKeys \subseteq args.registration_config)
    \/ args.read_non_lin_xfm # args.read_lin_premat
    \/ args.surf_reg = "MSMSulc" /\ args.MSM_config = "missing"
    \/ args.surf_reg = "MSMSulc" /\ OptionMismatch

\* C7: a configuration error found while Settings is constructed (freesurfer
\* subject folder missing, a registration key missing, one user transform
\* without the other, MSM configuration missing or mismatching) ends the
\* invocation with a non-zero status before the output root is created; one
\* transform without the other always aborts; with neither transform both
\* override entries are False.
C7_ConfigurationErrors ==
    /\ ConfigurationError =>
          /\ pc \in {"set_registration_mode", "get_subject",
                     "define_registration_settings", "exited"}
          /\ pc = "exited" => /\ status.code # 0
                              /\ status.at \in {"__set_registration_mode",
                                                "Subject.__set_fs_folder",
                                                "__define_registration_settings"}
          /\ ~RootCreated
          /\ disk = disk0
    /\ ~args.read_non_lin_xfm /\ ~args.read_lin_premat
       /\ pc \in {"has_been_run_before", "main", "run"}
          => /\ settings.User_AtlasTransform_NonLinear = "False"
             /\ settings.User_AtlasTransform_Linear = "False"

C7_Witness ==
    /\ pc = "exited"
    /\ status.at = "__define_registration_settings"
    /\ args.read_lin_premat /\ ~args.read_non_lin_xfm
    /\ RegistrationKeys \subseteq args.registration_config
    /\ ~RootCreated

C9_ExactMembership ==
    verdict # "none" => (verdict = "accept" <=> ~OptionMismatch)

FreshSubject == previous.code = -1 /\ ~RootExisted

\* C11: a dry run on a fresh subject ends with 'Done' and return value 0 for
\* every registration mode and either value of the resample flag; it never
\* ends fatally because an output that only a real run produces is absent.
C11_DryRunCompletes ==
    args.dry_run /\ FreshSubject /\ ~ConfigurationError /\ pc = "exited" =>
        /\ status.code = 0
        /\ status.at = "Done"

\* a full run that ended with 'Done' and return value 0
FullRunDone ==
    /\ pc = "exited" /\ status.code = 0
    /\ ~settings.skip_main_wf
    /\ ~args.dry_run
    /\ previous.code = -1

\* surfaces and dense maps in the folder of a mesh space
Registrable(m) ==
    {f \in disk : f[1] = m /\ f[2] \in {"surf", "dscalar", "dlabel"}}

\* C12: after a successful full run every surface file (the registration
\* spheres sphere.reg, sphere.reg.reg_LR, sphere.rot and sphere.MSMSulc of
\* the atlas-space native mesh included), every dense scalar map and every
\* dense label map in the folder of a mesh space is an entry of that mesh
\* space's manifest.
C12_ManifestComplete ==
    FullRunDone =>
        \A m \in AllMeshes : Registrable(m) \subseteq SeqRange(manifest[m])

\* label files and annotation files
LabelFiles(fs) == {f \in fs : f[2] \in {"label", "annot"}}

\* C13: whichever annotations of the expected labels are absent, for the left
\* and the right hemisphere independently, a full run completes without a
\* fatal error: the conversion, the resampling and the dense label map of
\* that label are skipped, so no command is handed to run() with a label file
\* or an annotation file that does not exist.
C13_MissingAnnotationSkipped ==
    args.missing_annot # {} /\ ~args.dry_run /\ FreshSubject /\ AtStmt("run") =>
        LabelFiles(Cur.reads) \subseteq Existing

\* C14: the merge is (atlas + individual) > 0 per vertex: a vertex is set in
\* the merged mask exactly when it is set in the resampled atlas mask or in
\* the subject mask, so every vertex of either mask is kept, merge(m, m) = m
\* and merge(a, b) = merge(b, a).
C14_MergeIsUnion ==
    roi.merged =>
        /\ \A v \in Vertices :
              roi.native_roi[v] = 1 <=>
                  roi.atlas_roi_native[v] = 1 \/ roi.individual[v] = 1
        /\ \A v \in Vertices :
              roi.atlas_roi_native[v] = 1 => roi.native_roi[v] = 1
        /\ \A v \in Vertices : roi.individual[v] = 1 => roi.native_roi[v] = 1
        /\ roi.atlas_roi_native = roi.individual
              => roi.native_roi = roi.individual
        /\ roi.native_roi = merge_medial_wall(roi.individual,
                                              roi.atlas_roi_native)
        /\ merge_medial_wall(roi.native_roi, roi.native_roi) = roi.native_roi

C14_Witness ==
    /\ roi # <<>>
    /\ roi.merged
    /\ \E v \in Vertices :
          roi.atlas_roi_native[v] = 1 /\ roi.individual[v] = 0
    /\ \E v \in Vertices :
          roi.atlas_roi_native[v] = 0 /\ roi.individual[v] = 1
    /\ \E v \in Vertices : roi.native_roi[v] = 0

\* C15: when the registration mode is not MSMSulc, the dscalars the pipeline
\* uses contain neither ArealDistortion_MSMSulc nor EdgeDistortion_MSMSulc,
\* whether the configured dscalars hold both entries, one of them or neither.
C15_NoMSMSulcDscalars ==
    dsc.defined /\ dsc.reg_name # "MSMSulc" =>
        /\ ~has_key(dsc.dscalars, "ArealDistortion_MSMSulc")
        /\ ~has_key(dsc.dscalars, "EdgeDistortion_MSMSulc")

\* C16: with two or more subject processes in link_to_template_file for the
\* same template, under every interleaving every process gets to its link,
\* the cache file ends complete, and no subject's link is made while the
\* cache file is absent or only partly written.
C16_ConcurrentLinkSafe ==
    /\ \A p \in Subjects : subjects[p].link \in {"none", "complete"}
    /\ (\A p \in Subjects : subjects[p].at = "done") => cache.file = "complete"

\* 2^k * d <= n < 2^(k+1) * d: k is the whole part of log2(n / d)
WholeLog2(n, d, k) ==
    IF k >= 0 THEN 2^k * d <= n /\ n < 2^(k + 1) * d
    ELSE d <= 2^(-k) * n /\ 2^(-k - 1) * n < d

\* C17: the areal distortion is log2(area on the registered sphere / area on
\* the sphere before registration) per vertex, the registered sphere being
\* the numerator: it is positive or zero where the area grew, negative where
\* it shrank, and exactly 0 where the two areas are equal.
C17_ArealDistortion ==
    va.AD_gii_out # <<>> =>
        \A v \in Vertices :
            /\ WholeLog2(va.reg_va[v], va.pre_va[v], va.AD_gii_out[v])
            /\ va.reg_va[v] >= va.pre_va[v] => va.AD_gii_out[v] >= 0
            /\ va.reg_va[v] < va.pre_va[v] => va.AD_gii_out[v] < 0
            /\ va.reg_va[v] = va.pre_va[v] => va.AD_gii_out[v] = 0

C17_Witness ==
    /\ va # <<>>
    /\ va.AD_gii_out # <<>>
    /\ \E v \in Vertices : va.reg_va[v] = va.pre_va[v] /\ va.pre_va[v] > 1
    /\ \E v \in Vertices : va.AD_gii_out[v] = 1
    /\ \E v \in Vertices : va.AD_gii_out[v] < 0

\* the workflows of run_ciftify_recon_all, in the order of the claim
WorkflowRank(wf) ==
    CASE wf = "setup" -> 0
      [] wf = "run_default_workflow" -> 1
      [] wf = "resampling_to_t1w_32k" -> 2

\* C18: with the output root absent and the resample flag set, one run
\* executes the whole default workflow and then the T1w 32k resampling, one
\* statement after the other in that order: the resampling starts when no
\* statement of the default workflow is left and, in a real run, its outputs
\* are written; without the flag no statement that resamples to a
\* Native{res}k_fs_LR mesh is executed.
C18_DefaultThenResample ==
    [][previous.code = -1 /\ ~RootExisted /\ pc' = "run" /\ ip' <= Len(Prog') =>
          /\ pc = "run" =>
                /\ ip' > ip
                /\ WorkflowRank(Prog'[ip'].wf) >= WorkflowRank(Cur.wf)
          /\ settings'.resample /\ pc = "run"
             /\ Prog'[ip'].wf = "resampling_to_t1w_32k"
             /\ Cur.wf # "resampling_to_t1w_32k" =>
                /\ Cur.wf = "run_default_workflow"
                /\ \A i \in ip'..Len(Prog') :
                      Prog'[i].wf = "resampling_to_t1w_32k"
                /\ ~args.dry_run => marker_file \in written'
          /\ ~settings'.resample =>
                /\ Prog'[ip'].wf # "resampling_to_t1w_32k"
                /\ \A f \in Prog'[ip'].writes : f[1] \notin NativeLowResMeshes
                /\ \A m \in NativeLowResMeshes : manifest'[m] = <<>>]_vars

C18_Witness ==
    /\ FullRunDone
    /\ args.resample_to_T1w32k
    /\ marker_file \in written
    /\ \E f \in written :
          f = surf_file("white", "R", NativeLowResMesh(low_res[1]))

\* statements of a stage of run_default_workflow that are still to come
Ahead(stage) == {i \in ip..Len(Prog) : Prog[i].stage = stage}

\* the invocation is at a statement of a stage of the full run
AtStage(stage) ==
    /\ pc = "run" /\ ip <= Len(Prog)
    /\ Cur.wf = "run_default_workflow"
    /\ Cur.stage = stage

\* C19 as stated: in a full run the merge of the subject mask with the atlas
\* mask is executed before create_reg_sphere starts: when a statement of
\* create_reg_sphere is reached, no statement of the merge is still to come.
C19_MergeBeforeRegSphere ==
    [][AtStage("create_reg_sphere")' =>
          Ahead("merge_subject_medial_wall_with_atlas_template")' = {}]_vars

\* C19: in a full run create_reg_sphere is executed before the merge of the
\* subject mask with the atlas mask starts: when a statement of the merge is
\* reached, no statement of create_reg_sphere is still to come and, in a real
\* run, the registration sphere of both hemispheres is written; the merge
\* reads that sphere.
C19_RegSphereBeforeMerge ==
    [][AtStage("merge_subject_medial_wall_with_atlas_template")' =>
          /\ Ahead("create_reg_sphere")' = {}
          /\ Prog'[ip'].tool = "wb_command -metric-resample" =>
                \E h \in {"L", "R"} : RegSphere(h)' \in Prog'[ip'].reads
          /\ ~args.dry_run =>
                \A h \in {"L", "R"} : RegSphere(h)' \in written']_vars

C19_Witness ==
    /\ AtStage("merge_subject_medial_wall_with_atlas_template")
    /\ args.surf_reg = "MSMSulc"
    /\ ~args.dry_run
    /\ RegSphere("L") \in Cur.reads
    /\ RegSphere("L") \in written

\* the mesh space a statement writes to or registers in
StmtMesh(st) ==
    IF st.spec # <<>> THEN st.spec[1][1]
    ELSE IF st.writes # {} THEN (CHOOSE f \in st.writes : TRUE)[1]
    ELSE <<>>

\* the stage of the claim a statement of run_default_workflow belongs to:
\* 1 volume conversion and registration, 2 native surface extraction,
\* 3..6 native mesh finishing (midthickness, inflation for T1wNative, then
\* for AtlasSpaceNative), 7 annotation conversion, 8 scalar conversion,
\* 9 registration sphere construction (with the templates of the high
\* resolution mesh), 10 native dense map assembly, 11 resampling to the high
\* resolution mesh, 12 resampling to the low resolution meshes
StageRank(st) ==
    CASE st.stage \in {"create_output_directories",
                       "convert_T1_and_freesurfer_inputs", "prepare_T1_image",
                       "convert_inputs_to_MNI_space",
                       "add_anat_images_to_spec_files",
                       "create_cifti_subcortical_ROIs"} -> 1
      [] st.stage = "convert_FS_surfaces_to_gifti" -> 2
      [] st.stage = "process_native_meshes" ->
            (CASE st.fn = "make_midthickness_surfaces" ->
                      IF StmtMesh(st) = T1wNative THEN 3 ELSE 5
               [] st.fn = "make_inflated_surfaces" ->
                      IF StmtMesh(st) = T1wNative THEN 4 ELSE 6
               [] st.fn = "convert_freesurfer_annot" -> 7
               [] OTHER -> 8)
      [] st.stage \in {"copy_atlas_roi_from_template",
                       "copy_sphere_mesh_from_template",
                       "create_reg_sphere"} -> 9
      [] st.stage \in {"merge_subject_medial_wall_with_atlas_template",
                       "dilate_and_mask_metric", "make_dense_map",
                       "add_dense_maps_to_spec_file"} -> 10
      [] st.stage \in {"copy_colin_flat_and_add_to_spec",
                       "deform_to_native"} -> 11
      [] st.stage = "populate_low_res_spec_file" -> 12

\* the statements of the full run that resample the left white surface to a
\* mesh space
ResamplingPasses(mesh) ==
    {i \in 1..Len(Prog) :
        /\ Prog[i].wf = "run_default_workflow"
        /\ Prog[i].tool = "wb_command -surface-resample"
        /\ surf_file("white", "L", mesh) \in Prog[i].writes}

DeformPhase(st) ==
    CASE st.fn = "resample_surfs_and_add_to_spec" -> 1
      [] st.fn = "make_inflated_surfaces" -> 2
      [] st.fn \in {"resample_and_mask_metric", "resample_label"} -> 3
      [] st.fn \in {"create_dlabel", "create_dscalar",
                    "add_dense_maps_to_spec_file"} -> 4
      [] OTHER -> 0

\* the stages of run_default_workflow that call deform_to_native
DeformStages == {"deform_to_native", "populate_low_res_spec_file"}

\* C21: for every destination mesh of deform_to_native the steps come in the
\* order surface resampling, inflation, scalar map and label resampling, dense
\* map assembly: when a scalar map or a label is resampled into the
\* destination, the white, midthickness and pial surfaces of both hemispheres
\* of the destination are written, and when a dense map of the destination is
\* assembled, every scalar map of both hemispheres is written and no scalar
\* or label resampling of that destination is still to come.
C21_SurfacesThenMapsThenDense ==
    [][pc' = "run" /\ ip' <= Len(Prog')
       /\ Prog'[ip'].wf = "run_default_workflow"
       /\ Prog'[ip'].stage \in DeformStages =>
          /\ pc = "run" /\ Cur.wf = Prog'[ip'].wf
             /\ Cur.stage = Prog'[ip'].stage =>
                DeformPhase(Prog'[ip']) >= DeformPhase(Cur)
          /\ DeformPhase(Prog'[ip']) = 3 /\ Prog'[ip'].kind = "run" =>
                /\ \A i \in ip'..Len(Prog') :
                      Prog'[i].stage = Prog'[ip'].stage =>
                         DeformPhase(Prog'[i]) >= 3
                /\ ~args.dry_run =>
                      \A surface \in {"white", "midthickness", "pial"} :
                         \A h \in {"L", "R"} :
                            surf_file(surface, h, StmtMesh(Prog'[ip']))
                               \in written'
          /\ DeformPhase(Prog'[ip']) = 4 /\ Prog'[ip'].kind = "run" =>
                /\ \A i \in ip'..Len(Prog') :
                      Prog'[i].stage = Prog'[ip'].stage =>
                         DeformPhase(Prog'[i]) = 4
                /\ ~args.dry_run =>
                      \A k \in 1..Len(settings'.dscalars) :
                         \A h \in {"L", "R"} :
                            metric_file(settings'.dscalars[k].mapname, h,
                                        StmtMesh(Prog'[ip'])) \in written']_vars

C21_Witness ==
    /\ pc = "run" /\ ip <= Len(Prog) /\ ~args.dry_run
    /\ Cur.wf = "run_default_workflow"
    /\ Cur.stage = "populate_low_res_spec_file"
    /\ Cur.tool = "wb_command -cifti-create-dense-scalar"
    /\ StmtMesh(Cur) = LowResMesh(low_res[1])
    /\ surf_file("pial", "R", LowResMesh(low_res[1])) \in written
    /\ surf_file("pial", "R", HighResMesh) \in written
    /\ label_file(expected_labels[1], "R", LowResMesh(low_res[1])) \in written

\* the calls that resample a surface, a scalar map or a label
ResampleTools ==
    {"wb_command -surface-resample", "wb_command -metric-resample",
     "wb_command -label-resample"}

\* the mesh spaces that are resampled into
ResampleDestinations ==
    {HighResMesh} \cup {LowResMesh(low_res[k]) : k \in 1..Len(low_res)}
        \cup NativeLowResMeshes

\* the atlas medial wall ROI, the atlas sphere and the atlas flat map of a
\* mesh space, in the subject tree
AtlasTemplates(mesh) ==
    {medial_wall_roi_file(h, mesh) : h \in {"L", "R"}}
        \cup {surf_file("sphere", h, mesh) : h \in {"L", "R"}}
        \cup {surf_file("flat", h, mesh) : h \in {"L", "R"}}

\* C22: in a real run, when a resampling call that targets the high
\* resolution mesh, a {res}k_fs_LR mesh or a Native{res}k_fs_LR mesh is
\* issued, the atlas medial wall ROI, the atlas sphere and the atlas flat map
\* of that mesh are in the subject tree.
C22_TemplatesBeforeResampling ==
    AtStmt("run") /\ ~args.dry_run /\ Cur.tool \in ResampleTools
    /\ StmtMesh(Cur) \in ResampleDestinations =>
        AtlasTemplates(StmtMesh(Cur)) \subseteq Existing

\* the calls of the hole-fill and small-island-removal pass
SmoothingTools ==
    {"wb_command -metric-fill-holes", "wb_command -metric-remove-islands"}

\* C23: in a full run the hole-fill and small-island-removal pass on the
\* native medial wall ROI of a hemisphere comes after the merge of the
\* subject mask with the atlas mask: when a call of the pass is issued on the
\* native ROI, no statement of the merge is still to come.
C23_SmoothingAfterMerge ==
    AtStmt("run") /\ Cur.wf = "run_default_workflow"
    /\ Cur.tool \in SmoothingTools
    /\ (\E h \in {"L", "R"} :
           medial_wall_roi_file(h, AtlasSpaceNative) \in Cur.writes) =>
        Ahead("merge_subject_medial_wall_with_atlas_template") = {}

\* the sphere name the claim gives for a registration mode
ExpectedRegSphereName(mode) ==
    IF mode = "MSMSulc" THEN "sphere.MSMSulc" ELSE "sphere.reg.reg_LR"

\* the FS-mode sphere and its areal distortion map, both hemispheres
FSRegOutputs ==
    {surf_file("sphere.reg.reg_LR", h, AtlasSpaceNative) : h \in {"L", "R"}}
        \cup {metric_file("ArealDistortion_FS", h, AtlasSpaceNative) :
                 h \in {"L", "R"}}

\* C24: a statement of the MSMSulc registration is reached only in MSMSulc
\* mode and only when no statement of the FS registration is still to come,
\* with the FS-mode sphere and its areal distortion map of both hemispheres
\* written in a real run; in both modes they are written when the stage after
\* create_reg_sphere starts.  The sphere the full run goes on with is
\* 'sphere.MSMSulc' in MSMSulc mode and 'sphere.reg.reg_LR' otherwise, and a
\* ResampleOnly run looks up the sphere of that same name.
C24_RegSphereNames ==
    [][pc' = "run" /\ ip' <= Len(Prog') =>
          /\ Prog'[ip'].fn = "run_MSMSulc_registration" =>
                /\ settings'.reg_name = "MSMSulc"
                /\ \A i \in ip'..Len(Prog') : Prog'[i].fn # "run_fs_reg_LR"
                /\ ~args.dry_run => FSRegOutputs \subseteq written'
          /\ AtStage("merge_subject_medial_wall_with_atlas_template")' =>
                /\ ~args.dry_run => FSRegOutputs \subseteq written'
                /\ Prog'[ip'].tool = "wb_command -metric-resample" =>
                      \E h \in {"L", "R"} :
                         surf_file(ExpectedRegSphereName(settings'.reg_name),
                                   h, AtlasSpaceNative) \in Prog'[ip'].reads
          /\ Prog'[ip'].kind = "check"
             /\ Prog'[ip'].fn = "resampling_to_t1w_32k" =>
                Prog'[ip'].reads =
                   {surf_file(ExpectedRegSphereName(settings'.reg_name), "L",
                              AtlasSpaceNative)}]_vars

C24_Witness ==
    /\ FullRunDone
    /\ settings.reg_name = "MSMSulc"
    /\ args.resample_to_T1w32k
    /\ FSRegOutputs \subseteq written
    /\ surf_file("sphere.MSMSulc", "R", AtlasSpaceNative) \in written
    /\ surf_file("white", "R", NativeLowResMesh(low_res[1])) \in written

\* C25: link_to_template_file is idempotent for one subject: when a
\* ResampleOnly run follows a completed run that built the T1w 32k space, the
\* second call with the same arguments completes: the run is not ended by
\* the link that the first call made.
C25_LinkIdempotent ==
    /\ previous.code = 0
    /\ surf_file("sphere", "L", NativeLowResMesh(low_res[1])) \in disk0
    /\ pc = "exited"
    /\ settings # NoSettings
    /\ settings.skip_main_wf
    => status.at # "FileExistsError"

\* C26: when the invocations for one subject start with the output root
\* absent, at most one of them proceeds as the full pipeline under every
\* interleaving of the existence check and the directory creation; every
\* other invocation that has decided has terminated fatally, and none of
\* them issues an external call.
C26_OneFullPipeline ==
    race # <<>> /\ ~race.root0 =>
        /\ Cardinality({p \in Invocations :
                           race.procs[p].outcome = "full"}) <= 1
        /\ \A p \in Invocations :
              race.procs[p].outcome \notin {"none", "full"} =>
                 /\ race.procs[p].outcome = "abort"
                 /\ race.procs[p].at = "exited"
        /\ \A p \in Invocations :
              race.procs[p].called => race.procs[p].outcome = "full"

\* both invocations saw the root absent; one created it and runs, the other
\* one's os.makedirs raised
C26_Witness ==
    /\ race # <<>> /\ ~race.root0
    /\ \E p \in Invocations, q \in Invocations :
          /\ race.procs[p].outcome = "full" /\ race.procs[p].called
          /\ race.procs[q].seen = "absent"
          /\ race.procs[q].outcome = "abort"
          /\ race.procs[q].resample
    /\ \E p \in Invocations : ~race.procs[p].resample

\* C27: within one run each (mesh space manifest, file) pair is registered
\* at most once: an entry that is appended to a manifest is not among the
\* entries the same run appended to it before.
C27_RegisteredOnce ==
    [][\A m \in AllMeshes :
          pc = "run" /\ Len(manifest'[m]) = Len(manifest[m]) + 1 =>
             \A i \in (Len(manifest0[m]) + 1)..Len(manifest[m]) :
                manifest[m][i] # manifest'[m][Len(manifest'[m])]]_vars

\* C28: in a real full run on a fresh subject every file of the subject tree
\* that a command handed to run() reads was written by an earlier call of
\* the same run.
C28_InputsWrittenEarlier ==
    AtStmt("run") /\ FreshSubject /\ ~args.dry_run /\ ~settings.skip_main_wf =>
        {f \in Cur.reads : InSubjectTree(f)} \subseteq written

\* C29: a dry run leaves no state that changes the outcome of a later real
\* run: after a dry run on a fresh subject, a real run on the same subject
\* with the same options is decided as the full pipeline and is not refused.
C29_DryRunLeavesNoTrace ==
    /\ previous.code # -1 /\ previous.dry
    /\ ~args.dry_run
    /\ args.resample_to_T1w32k = previous.resample
    /\ Decided
    => ~ResumeAborted /\ ~settings.skip_main_wf

\* C30: when the freesurfer wmparc volume is absent, a full run ends fatally
\* at the conversion step: it does not get past
\* convert_T1_and_freesurfer_inputs, so the brain mask is not created and no
\* registration call is issued; when wmparc is present and another
\* segmentation volume is absent, the conversion step is not ended by the
\* absence.
C30_MissingWmparcFatal ==
    FreshSubject /\ ~args.dry_run /\ args.missing_mgz # {} =>
        /\ fs_mgz("wmparc") \in args.missing_mgz =>
              /\ pc = "run" /\ ip <= Len(Prog) =>
                    Cur.stage \in {"log_build_environment",
                                   "create_output_directories",
                                   "convert_T1_and_freesurfer_inputs"}
              /\ pc = "exited" /\ Decided /\ ~ResumeAborted =>
                    /\ status.code = 1
                    /\ status.stage = "convert_T1_and_freesurfer_inputs"
        /\ fs_mgz("wmparc") \notin args.missing_mgz /\ pc = "exited" =>
              status.at # "convert_freesurfer_mgz"

====
